---------------------------- MODULE Spec2Model ----------------------------
(***************************************************************************)
(* A model of the gamedev-links digest pipeline: parse_digests.py,         *)
(* fetch_images.py, fetch_dates.py and classify.py.                        *)
(*                                                                         *)
(* Strings.  A Python str is modelled as a sequence of chunks.  A chunk    *)
(* is a TLA+ string holding one or more characters of the Python string;   *)
(* the concatenation of the chunks is the string.  Chunk boundaries fall   *)
(* wherever a pattern of the code may begin or end, so that substring,     *)
(* prefix, suffix and regular-expression tests of the code are decided     *)
(* exactly by comparing chunks.  Digits, separators and blanks are always  *)
(* chunks of one character.  Python's None is the value None below.        *)
(***************************************************************************)
EXTENDS Integers, Sequences, FiniteSets, TLC

VARIABLES
    pc,         \* position of the run that the specification describes
    raw,        \* parse_date_string: the argument of the first call
    parsed,     \* parse_date_string: its result
    reparsed,   \* parse_date_string: the result of the call on `parsed`
    data,               \* the catalog in memory: a sequence of records
    data_file,          \* data.json
    date_progress,      \* fetch_dates.main: progress (url -> date)
    date_progress_file, \* date_progress.json
    urls_to_process,    \* fetch_dates.main: the urls submitted to the pool
    futures,            \* fetch_dates.main: url -> result of its finished worker
    completed,          \* fetch_dates.main: futures collected so far
    last_fetch,         \* what fetch_url gave the worker that finished last
    rec,                \* classify.main: the record of the loop
    digest_html,        \* the digest page
    resources,          \* what extract_resources_from_digest returned
    h3_index,           \* extract_image_map: headings done by the loop
    claimed_images,     \* extract_image_map: claimed_images
    image_map,          \* extract_image_map: image_map
    results,            \* process_digest_images: results
    image_progress,     \* fetch_images.main: progress (digest -> results)
    digest_progress,      \* parse_digests.main: progress (digest number -> url)
    digest_progress_file, \* processed_digests.json
    progress_at_start,    \* processed_digests.json as the run found it
    fetched_urls,         \* the urls fetch_url was called with during the run
    digest_call,          \* process_digest: digest_url, number and date of the call
    runs,                 \* runs of parse_digests.main started so far
    calls,                \* process_digest calls of the run so far
    passes                \* the enrichment passes run over the catalog so far

vars == <<pc, raw, parsed, reparsed, data, data_file, date_progress,
          date_progress_file, urls_to_process, futures, completed, last_fetch,
          rec, digest_html, resources, h3_index, claimed_images, image_map, results,
          image_progress, digest_progress, digest_progress_file, progress_at_start,
          fetched_urls, digest_call, runs, calls, passes>>

dateVars == <<raw, parsed, reparsed>>

fetchProgressVars == <<date_progress, date_progress_file, urls_to_process,
                       futures, completed, last_fetch>>

fetchDatesVars == <<data, data_file, fetchProgressVars>>

classifyVars == <<rec>>

digestVars == <<digest_html, resources, h3_index, claimed_images, image_map, results,
                image_progress>>

runVars == <<digest_progress, digest_progress_file, progress_at_start,
             fetched_urls, digest_call, runs, calls, passes>>

None == <<"<None>">>
Unset == <<"<unset>">>

---------------------------------------------------------------------------
(* str helpers                                                             *)

DigitChars == <<"0", "1", "2", "3", "4", "5", "6", "7", "8", "9">>

IsDigit(c) == \E k \in DOMAIN DigitChars : DigitChars[k] = c

DigitVal(c) == (CHOOSE k \in DOMAIN DigitChars : DigitChars[k] = c) - 1

IsSpace(c) == c \in {" ", "\t", "\n"}

\* bool(s) of an optional str: None and "" are false
Truthy(s) == s # None /\ s # <<>>

\* the part of s from the first to the last of the positions keep
Between(s, keep) ==
    IF keep = {} THEN <<>>
    ELSE SubSeq(s, CHOOSE k \in keep : \A j \in keep : k <= j,
                   CHOOSE k \in keep : \A j \in keep : k >= j)

\* str.strip()
Strip(s) == Between(s, {k \in DOMAIN s : ~IsSpace(s[k])})

\* s.startswith(p)
StartsWith(s, p) == Len(p) <= Len(s) /\ SubSeq(s, 1, Len(p)) = p

\* s.endswith(p)
EndsWith(s, p) == Len(p) <= Len(s) /\ SubSeq(s, Len(s) - Len(p) + 1, Len(s)) = p

\* p in s
Contains(s, p) == \E k \in 1..(Len(s) - Len(p) + 1) : SubSeq(s, k, k + Len(p) - 1) = p

\* int(s) of a digit string
RECURSIVE StrToInt(_)
StrToInt(s) ==
    IF s = <<>> THEN 0
    ELSE 10 * StrToInt(SubSeq(s, 1, Len(s) - 1)) + DigitVal(s[Len(s)])

\* str(n) of a natural number
RECURSIVE IntToStr(_)
IntToStr(n) ==
    IF n < 10 THEN <<DigitChars[n + 1]>>
    ELSE IntToStr(n \div 10) \o <<DigitChars[(n % 10) + 1]>>

\* f"{n:02d}"
Pad2(n) == IF n < 10 THEN <<"0">> \o IntToStr(n) ELSE IntToStr(n)

---------------------------------------------------------------------------
(* The date patterns of fetch_dates.py.  Each has three digit groups       *)
(* joined by two separators: (\d{a})sep1(\d{b})sep2(\d{c}), optionally     *)
(* followed by a closing literal.  w1, w2, w3 list the widths a group may  *)
(* take in the order the regex engine tries them (greedy: widest first).   *)

NoMatch == [ok |-> FALSE, g1 |-> <<>>, g2 |-> <<>>, g3 |-> <<>>]

\* x or y, for optional values
OrElse(x, y) == IF x # None THEN x ELSE y

\* min(S) of a non-empty set of integers
Least(S) == CHOOSE k \in S : \A j \in S : k <= j

DigitsAt(s, p, n) == p + n - 1 <= Len(s) /\ \A k \in p..(p + n - 1) : IsDigit(s[k])

LitAt(s, p, c) == p <= Len(s) /\ s[p] = c

\* groups of widths a, b, c match at position p
Fits(s, p, a, sep1, b, sep2, c, closing) ==
    /\ DigitsAt(s, p, a)
    /\ LitAt(s, p + a, sep1)
    /\ DigitsAt(s, p + a + 1, b)
    /\ LitAt(s, p + a + 1 + b, sep2)
    /\ DigitsAt(s, p + a + b + 2, c)
    /\ (closing # <<>> => LitAt(s, p + a + b + c + 2, closing[1]))

\* the engine tries the choice of widths t before the choice u
TriedBefore(t, u) ==
    \/ t[1] < u[1]
    \/ t[1] = u[1] /\ t[2] < u[2]
    \/ t[1] = u[1] /\ t[2] = u[2] /\ t[3] <= u[3]

\* the groups of the match at p with widths a, b, c
Groups(s, p, a, b, c) ==
    [ok |-> TRUE,
     g1 |-> SubSeq(s, p, p + a - 1),
     g2 |-> SubSeq(s, p + a + 1, p + a + b),
     g3 |-> SubSeq(s, p + a + b + 2, p + a + b + c + 1)]

\* the match the engine reports among the choices of widths that fit
FirstFit(s, p, w1, w2, w3, cands) ==
    IF cands = {} THEN NoMatch
    ELSE Groups(s, p,
                w1[(CHOOSE t \in cands : \A u \in cands : TriedBefore(t, u))[1]],
                w2[(CHOOSE t \in cands : \A u \in cands : TriedBefore(t, u))[2]],
                w3[(CHOOSE t \in cands : \A u \in cands : TriedBefore(t, u))[3]])

\* the match of the three groups starting at position p, or NoMatch
Match3At(s, p, w1, sep1, w2, sep2, w3, closing) ==
    FirstFit(s, p, w1, w2, w3,
             {t \in (DOMAIN w1) \X (DOMAIN w2) \X (DOMAIN w3) :
                 Fits(s, p, w1[t[1]], sep1, w2[t[2]], sep2, w3[t[3]], closing)})

\* the bounds check shared by every date pattern
ValidDateNoYearCeiling(year, month, day) ==
    1990 <= year /\ 1 <= month /\ month <= 12 /\ 1 <= day /\ day <= 31

ValidDateNoYearFloor(year, month, day) ==
    year <= 2030 /\ 1 <= month /\ month <= 12 /\ 1 <= day /\ day <= 31

ValidDate(year, month, day) ==
    1990 <= year /\ year <= 2030 /\ 1 <= month /\ month <= 12 /\ 1 <= day /\ day <= 31

\* f"{day:02d}.{month:02d}.{year}"
FormatDateUnpadded(year, month, day) ==
    IntToStr(day) \o <<".">> \o IntToStr(month) \o <<".">> \o IntToStr(year)

FormatDate(year, month, day) ==
    Pad2(day) \o <<".">> \o Pad2(month) \o <<".">> \o IntToStr(year)

\* the formatted date when the bounds check passes, else None
CheckedDate(year, month, day) ==
    IF ValidDate(year, month, day) THEN FormatDate(year, month, day) ELSE None

\* the date of a match whose groups are (year, month, day), (month, day,
\* year) or (day, month, year)
DateOfMatch(m, order) ==
    IF ~m.ok THEN None
    ELSE IF order = "ymd" THEN CheckedDate(StrToInt(m.g1), StrToInt(m.g2), StrToInt(m.g3))
    ELSE IF order = "mdy" THEN CheckedDate(StrToInt(m.g3), StrToInt(m.g1), StrToInt(m.g2))
    ELSE CheckedDate(StrToInt(m.g3), StrToInt(m.g2), StrToInt(m.g1))

\* parse_date_string after raw = raw.strip()
ParseStripped(s) ==
    IF ~Truthy(s) THEN None
    ELSE OrElse(DateOfMatch(Match3At(s, 1, <<4>>, "-", <<2, 1>>, "-", <<2, 1>>, <<>>), "ymd"),
         OrElse(DateOfMatch(Match3At(s, 1, <<2, 1>>, "/", <<2, 1>>, "/", <<4>>, <<>>), "mdy"),
                DateOfMatch(Match3At(s, 1, <<2, 1>>, ".", <<2, 1>>, ".", <<4>>, <<>>), "dmy")))

parse_date_string(r) == IF ~Truthy(r) THEN None ELSE ParseStripped(Strip(r))

---------------------------------------------------------------------------
(* Inputs of parse_date_string: three digit fields in the three orders,    *)
(* joined by each separator, with optional leading blank and trailing      *)
(* text, and a few inputs of no shape at all.                              *)

YearFields ==
    {<<"1", "9", "7", "0">>, <<"1", "9", "8", "9">>, <<"1", "9", "9", "0">>,
     <<"2", "0", "2", "3">>, <<"2", "0", "3", "0">>, <<"2", "0", "3", "1">>,
     <<"2", "0", "4", "5">>, <<"2", "3">>, <<"2", "0", "2", "3", "1">>}

MonthFields ==
    {<<"0">>, <<"3">>, <<"0", "3">>, <<"1", "2">>, <<"1", "3">>, <<"0", "1", "1">>}

DayFields ==
    {<<"0">>, <<"5">>, <<"1", "5">>, <<"3", "1">>, <<"3", "2">>, <<"1", "5", "5">>}

Separators == {"-", "/", "."}

Leads == {<<>>, <<" ">>}

Tails == {<<>>, <<"T", "1", "0", ":", "0", "0">>, <<"7">>}

ShapedInputs ==
    {ld \o f[1] \o <<sp>> \o f[2] \o <<sp>> \o f[3] \o tl :
        ld \in Leads, sp \in Separators, tl \in Tails,
        f \in (YearFields \X MonthFields \X DayFields)
              \cup (MonthFields \X DayFields \X YearFields)
              \cup (DayFields \X MonthFields \X YearFields)}

DateInputs ==
    ShapedInputs \cup {None, <<>>, <<" ">>, <<"yesterday">>, <<"2", "0", "2", "3">>}

---------------------------------------------------------------------------
(* fetch_dates.py: the date waterfall.                                     *)

DEFAULT_DATE == <<"0", "1", ".", "0", "1", ".", "1", "9", "7", "0">>

BATCH_SIZE == 50

\* the date pattern anchored at position p of the url: "/", the three
\* groups, "/"
UrlMatchAt(url, p, sep, w2, w3) ==
    IF LitAt(url, p, "/")
    THEN Match3At(url, p + 1, <<4>>, sep, w2, sep, w3, <<"/">>)
    ELSE NoMatch

\* the match at the least of the positions hits, or NoMatch
LeftmostMatch(url, sep, w2, w3, hits) ==
    IF hits = {} THEN NoMatch ELSE UrlMatchAt(url, Least(hits), sep, w2, w3)

\* re.search of a date pattern in a url: the leftmost match
SearchUrl(url, sep, w2, w3) ==
    LeftmostMatch(url, sep, w2, w3, {p \in DOMAIN url : UrlMatchAt(url, p, sep, w2, w3).ok})

extract_date_from_url(url) ==
    OrElse(DateOfMatch(SearchUrl(url, "/", <<2, 1>>, <<2, 1>>), "ymd"),
           DateOfMatch(SearchUrl(url, "-", <<2>>, <<2>>), "ymd"))

(* A fetched resource page, as the patterns of extract_date_from_html see  *)
(* it:                                                                     *)
(*   og    the content of the first article:published_time meta tag, or    *)
(*         None when the page has none;                                    *)
(*   meta  for each name of MetaNames, the content of the first meta tag   *)
(*         of that name, or None;                                          *)
(*   ld    the JSON-LD blocks in document order, each the value of its     *)
(*         first "datePublished", or None when it has none;                *)
(*   time  the datetime attributes of the time elements in document order. *)
(* What fetch_url returns is such a page with got = "text", the empty      *)
(* text (got = "empty"), or None (got = "none") on any error or timeout.   *)

MetaNames == <<"date", "pubdate", "DC.date.issued", "publish_date", "article:published">>

\* the first element of seq that parse_date_string accepts, parsed, or None
FirstOf(seq, good) == IF good = {} THEN None ELSE parse_date_string(seq[Least(good)])

FirstParsed(seq) == FirstOf(seq, {k \in DOMAIN seq : parse_date_string(seq[k]) # None})

\* strategies 1 to 4, the stages that read the document, as the sequence of
\* raw values in the order the waterfall tries them
DocumentRawsTimeFirst(html) ==
    <<html.og>> \o [k \in DOMAIN MetaNames |-> html.meta[MetaNames[k]]] \o html.time \o html.ld

DocumentRaws(html) ==
    <<html.og>> \o [k \in DOMAIN MetaNames |-> html.meta[MetaNames[k]]] \o html.ld \o html.time

DocumentStages(html) == FirstParsed(DocumentRaws(html))

extract_date_from_html(html, url) ==
    OrElse(DocumentStages(html), extract_date_from_url(url))

\* bool(html) of what fetch_url returned
HtmlTruthy(html) == html.got = "text"

\* process_single_url, given what fetch_url returned for the url
process_single_url_NoUrlFallback(url, html) ==
    OrElse(IF HtmlTruthy(html) THEN extract_date_from_html(html, url) ELSE None,
           DEFAULT_DATE)

process_single_url(url, html) ==
    OrElse(IF HtmlTruthy(html) THEN extract_date_from_html(html, url) ELSE None,
           OrElse(extract_date_from_url(url), DEFAULT_DATE))

\* dict.get(key, default)
Get(map, key, default) == IF key \in DOMAIN map THEN map[key] ELSE default

\* d[key] = value
Put(map, key, value) ==
    [k \in (DOMAIN map) \cup {key} |-> IF k = key THEN value ELSE map[k]]

\* apply_dates: the records with their Date set from progress
apply_dates(recs, progress) ==
    [k \in DOMAIN recs |-> Put(recs[k], "Date", Get(progress, recs[k].Link, DEFAULT_DATE))]

---------------------------------------------------------------------------
(* Inputs of the date pass.                                                *)

MaxRecords == 2

UrlPlain == <<"http", "s", "://", "a", ".", "com", "/", "post">>

UrlSlashed ==
    <<"http", "s", "://", "b", ".", "org", "/", "2", "0", "2", "2", "/", "7", "/", "4",
      "/", "post">>

UrlDashed ==
    <<"http", "://", "c", ".", "net", "/", "2", "0", "2", "1", "-", "1", "1", "-", "3", "0",
      "/">>

UrlOutOfRange ==
    <<"http", "s", "://", "d", ".", "io", "/", "2", "0", "4", "5", "/", "0", "1", "/", "0",
      "1", "/">>

UrlEpoch ==
    <<"http", "s", "://", "e", ".", "net", "/", "1", "9", "7", "0", "/", "0", "1", "/", "0",
      "1", "/">>

DateUrls == {UrlPlain, UrlSlashed, UrlDashed, UrlOutOfRange}

RawOg == <<"2", "0", "2", "1", "-", "0", "1", "-", "1", "1", "T", "0", "9", ":", "3", "0">>

RawMeta == <<"0", "2", "/", "1", "2", "/", "2", "0", "2", "2">>

RawLd == <<"2", "0", "2", "3", "-", "0", "3", "-", "1", "3">>

RawTime == <<"1", "4", ".", "0", "4", ".", "2", "0", "2", "4">>

RawBad == <<"yesterday">>

RawEpoch == <<"1", "9", "7", "0", "-", "0", "1", "-", "0", "1">>

NoMeta == [n \in {MetaNames[k] : k \in DOMAIN MetaNames} |-> None]

FetchedPages ==
    {[got |-> "text", og |-> o, meta |-> [NoMeta EXCEPT !["date"] = m], ld |-> l, time |-> t] :
        o \in {None, RawOg, RawBad}, m \in {None, RawMeta},
        l \in {<<>>, <<RawBad, RawLd>>}, t \in {<<>>, <<RawTime>>}}

NoHtml == [got |-> "none", og |-> None, meta |-> NoMeta, ld |-> <<>>, time |-> <<>>]

EmptyHtml == [got |-> "empty", og |-> None, meta |-> NoMeta, ld |-> <<>>, time |-> <<>>]

\* what fetch_url may return
FetchResults == {NoHtml, EmptyHtml} \cup FetchedPages

NoFetch == [url |-> None, html |-> NoHtml]

\* the records parse_digests leaves in data.json, as far as this pass reads them
DateCatalogs ==
    UNION {[1..n -> {[Link |-> u] : u \in DateUrls}] : n \in 0..MaxRecords}

---------------------------------------------------------------------------
(* Values of the variables a specification does not use.                   *)

EmptyMap == [k \in {} |-> None]

FetchDatesIdle ==
    /\ data = <<>>
    /\ data_file = <<>>
    /\ date_progress = EmptyMap
    /\ date_progress_file = EmptyMap
    /\ urls_to_process = <<>>
    /\ futures = EmptyMap
    /\ completed = 0
    /\ last_fetch = NoFetch

DateIdle ==
    /\ raw = None
    /\ parsed = Unset
    /\ reparsed = Unset

ClassifyIdle == rec = [Link |-> <<>>, Title |-> <<>>, Description |-> <<>>]

NoCall == [url |-> None, number |-> 0, date |-> None]

RunIdle ==
    /\ digest_progress = EmptyMap
    /\ digest_progress_file = EmptyMap
    /\ progress_at_start = EmptyMap
    /\ fetched_urls = {}
    /\ digest_call = NoCall
    /\ runs = 0
    /\ calls = 0
    /\ passes = <<>>

DigestIdle ==
    /\ digest_html = [article |-> FALSE, lead |-> <<>>, sections |-> <<>>]
    /\ resources = <<>>
    /\ h3_index = 0
    /\ claimed_images = {}
    /\ image_map = <<>>
    /\ results = <<>>
    /\ image_progress = <<>>

---------------------------------------------------------------------------
(* SpecDate: parse_date_string applied to an input, then to its own        *)
(* result.                                                                 *)

InitDate ==
    /\ RunIdle
    /\ pc = "input"
    /\ raw \in DateInputs
    /\ parsed = Unset
    /\ reparsed = Unset
    /\ FetchDatesIdle
    /\ ClassifyIdle
    /\ DigestIdle

ParseDate ==
    /\ pc = "input"
    /\ parsed' = parse_date_string(raw)
    /\ pc' = "parsed"
    /\ UNCHANGED <<raw, reparsed>>
    /\ UNCHANGED <<fetchDatesVars, classifyVars, digestVars, runVars>>

Renormalize ==
    /\ pc = "parsed"
    /\ parsed # None
    /\ reparsed' = parse_date_string(parsed)
    /\ pc' = "renormalized"
    /\ UNCHANGED <<raw, parsed>>
    /\ UNCHANGED <<fetchDatesVars, classifyVars, digestVars, runVars>>

NextDate == ParseDate \/ Renormalize

SpecDate == InitDate /\ [][NextDate]_vars

---------------------------------------------------------------------------
(* SpecFetchDates: one run of fetch_dates.main.                            *)

InitFetchDates ==
    /\ RunIdle
    /\ pc = "start"
    /\ DateIdle
    /\ ClassifyIdle
    /\ DigestIdle
    /\ data = <<>>
    /\ data_file \in DateCatalogs
    /\ date_progress = EmptyMap
    /\ date_progress_file \in {EmptyMap, [u \in {UrlPlain} |-> RawTime]}
    /\ urls_to_process = <<>>
    /\ futures = EmptyMap
    /\ completed = 0
    /\ last_fetch = NoFetch

\* the Links of recs that are not in progress, each once, in catalog order
RECURSIVE CollectUrls(_, _, _)
CollectUrls(recs, progress, seen) ==
    IF recs = <<>> THEN <<>>
    ELSE LET url == Head(recs).Link
         IN  IF url \notin DOMAIN progress /\ url \notin seen
             THEN <<url>> \o CollectUrls(Tail(recs), progress, seen \cup {url})
             ELSE CollectUrls(Tail(recs), progress, seen)

\* main, up to the submission of the urls to the pool; with nothing to
\* process it applies the dates and returns
MainLoad ==
    /\ pc = "start"
    /\ LET urls == CollectUrls(data_file, date_progress_file, {})
       IN  /\ urls_to_process' = urls
           /\ date_progress' = date_progress_file
           /\ IF urls = <<>>
              THEN /\ data' = apply_dates(data_file, date_progress_file)
                   /\ data_file' = apply_dates(data_file, date_progress_file)
                   /\ pc' = "done"
              ELSE /\ data' = data_file
                   /\ data_file' = data_file
                   /\ pc' = "pool"
    /\ UNCHANGED <<date_progress_file, futures, completed, last_fetch>>
    /\ UNCHANGED <<dateVars, classifyVars, digestVars, runVars>>

\* a pool worker runs process_single_url on a submitted url
WorkerRun(k, html) ==
    /\ pc = "pool"
    /\ urls_to_process[k] \notin DOMAIN futures
    /\ futures' = Put(futures, urls_to_process[k], process_single_url(urls_to_process[k], html))
    /\ last_fetch' = [url |-> urls_to_process[k], html |-> html]
    /\ UNCHANGED <<pc, data, data_file, date_progress, date_progress_file,
                   urls_to_process, completed>>
    /\ UNCHANGED <<dateVars, classifyVars, digestVars, runVars>>

\* the main thread takes a finished future from as_completed
MainCollect(k) ==
    /\ pc = "pool"
    /\ urls_to_process[k] \in DOMAIN futures
    /\ urls_to_process[k] \notin DOMAIN date_progress
    /\ date_progress' = Put(date_progress, urls_to_process[k], futures[urls_to_process[k]])
    /\ completed' = completed + 1
    /\ date_progress_file' = IF (completed + 1) % BATCH_SIZE = 0
                             THEN date_progress'
                             ELSE date_progress_file
    /\ UNCHANGED <<pc, data, data_file, urls_to_process, futures, last_fetch>>
    /\ UNCHANGED <<dateVars, classifyVars, digestVars, runVars>>

\* every future collected: the final save of progress, then apply_dates
MainApply ==
    /\ pc = "pool"
    /\ completed = Len(urls_to_process)
    /\ date_progress_file' = date_progress
    /\ data' = apply_dates(data, date_progress)
    /\ data_file' = apply_dates(data, date_progress)
    /\ pc' = "done"
    /\ UNCHANGED <<date_progress, urls_to_process, futures, completed, last_fetch>>
    /\ UNCHANGED <<dateVars, classifyVars, digestVars, runVars>>

\* KeyboardInterrupt while the pool runs: save progress and exit
MainInterrupt ==
    /\ pc = "pool"
    /\ date_progress_file' = date_progress
    /\ pc' = "interrupted"
    /\ UNCHANGED <<data, data_file, date_progress, urls_to_process, futures,
                   completed, last_fetch>>
    /\ UNCHANGED <<dateVars, classifyVars, digestVars, runVars>>

NextFetchDates ==
    \/ MainLoad
    \/ \E k \in DOMAIN urls_to_process, html \in FetchResults : WorkerRun(k, html)
    \/ \E k \in DOMAIN urls_to_process : MainCollect(k)
    \/ MainApply
    \/ MainInterrupt

SpecFetchDates == InitFetchDates /\ [][NextFetchDates]_vars

---------------------------------------------------------------------------
(* SpecFetchDatesRerun: a run of fetch_dates.main over a catalog that an   *)
(* earlier run has given its dates.  date_progress.json is the one the     *)
(* earlier run left, or is missing or unreadable, which load_json reads    *)
(* as the empty map.                                                       *)

\* what the earlier run got for every url: no document, or a page with a
\* published_time
PriorResults == {NoHtml, [got |-> "text", og |-> RawOg, meta |-> NoMeta, ld |-> <<>>,
                          time |-> <<>>]}

\* the progress map the earlier run ended with
PriorProgress(recs, html) ==
    [u \in {recs[k].Link : k \in DOMAIN recs} |-> process_single_url(u, html)]

InitFetchDatesRerun ==
    /\ RunIdle
    /\ pc = "start"
    /\ DateIdle
    /\ ClassifyIdle
    /\ DigestIdle
    /\ data = <<>>
    /\ \E recs \in DateCatalogs : \E html \in PriorResults :
           /\ data_file = apply_dates(recs, PriorProgress(recs, html))
           /\ date_progress_file \in {PriorProgress(recs, html), EmptyMap}
    /\ date_progress = EmptyMap
    /\ urls_to_process = <<>>
    /\ futures = EmptyMap
    /\ completed = 0
    /\ last_fetch = NoFetch

SpecFetchDatesRerun == InitFetchDatesRerun /\ [][NextFetchDates]_vars

---------------------------------------------------------------------------
(* SpecExtract: process_single_url and extract_date_from_html applied to   *)
(* one url and what fetch_url returned for it.                             *)

RawPub == <<"1", "5", ".", "0", "5", ".", "2", "0", "2", "5">>

RawPublished == <<"2", "0", "2", "6", "-", "0", "6", "-", "1", "6">>

RawLdLater == <<"1", "7", ".", "0", "7", ".", "2", "0", "2", "7">>

\* pages in which every stage is absent, present and good, or present and
\* not a date
WaterfallPages ==
    {[got |-> "text", og |-> o,
      meta |-> [NoMeta EXCEPT !["date"] = m, !["pubdate"] = p, !["article:published"] = a],
      ld |-> l, time |-> t] :
        o \in {None, RawOg, RawBad}, m \in {None, RawMeta, RawBad}, p \in {None, RawPub},
        a \in {None, RawPublished},
        l \in {<<>>, <<RawBad, RawLd>>, <<None, RawLd, RawLdLater>>, <<RawBad>>},
        t \in {<<>>, <<RawTime>>, <<RawBad, RawTime>>, <<DEFAULT_DATE, RawEpoch>>}}

InitExtract ==
    /\ RunIdle
    /\ pc = "page"
    /\ raw = None
    /\ parsed = Unset
    /\ reparsed = Unset
    /\ data = <<>>
    /\ data_file = <<>>
    /\ date_progress = EmptyMap
    /\ date_progress_file = EmptyMap
    /\ urls_to_process = <<>>
    /\ futures = EmptyMap
    /\ completed = 0
    /\ last_fetch \in [url : DateUrls \cup {UrlEpoch},
                       html : WaterfallPages \cup {NoHtml, EmptyHtml}]
    /\ ClassifyIdle
    /\ DigestIdle

\* the call process_single_url makes when fetch_url returned a document
ExtractDate ==
    /\ pc = "page"
    /\ HtmlTruthy(last_fetch.html)
    /\ parsed' = extract_date_from_html(last_fetch.html, last_fetch.url)
    /\ pc' = "extracted"
    /\ UNCHANGED <<raw, reparsed>>
    /\ UNCHANGED <<fetchDatesVars, classifyVars, digestVars, runVars>>

ProcessSingleUrl ==
    /\ pc = "page"
    /\ parsed' = process_single_url(last_fetch.url, last_fetch.html)
    /\ pc' = "processed"
    /\ UNCHANGED <<raw, reparsed>>
    /\ UNCHANGED <<fetchDatesVars, classifyVars, digestVars, runVars>>

NextExtract ==
    \/ ExtractDate
    \/ ProcessSingleUrl

SpecExtract == InitExtract /\ [][NextExtract]_vars

---------------------------------------------------------------------------
(* classify.py.  The strings of this script are modelled character by      *)
(* character: every chunk is one character, and a Cyrillic letter is       *)
(* written as its code point ("U+043D").                                   *)

\* the letters str.lower changes, and what it changes them to
UpperChars ==
    <<"A", "B", "C", "D", "E", "F", "G", "H", "I", "J", "K", "L", "M", "N",
      "O", "P", "Q", "R", "S", "T", "U", "V", "W", "X", "Y", "Z", "U+0410",
      "U+0411", "U+0412", "U+0413", "U+0414", "U+0415", "U+0416", "U+0417",
      "U+0418", "U+0419", "U+041A", "U+041B", "U+041C", "U+041D", "U+041E",
      "U+041F", "U+0420", "U+0421", "U+0422", "U+0423", "U+0424", "U+0425",
      "U+0426", "U+0427", "U+0428", "U+0429", "U+042A", "U+042B", "U+042C",
      "U+042D", "U+042E", "U+042F">>

LowerChars ==
    <<"a", "b", "c", "d", "e", "f", "g", "h", "i", "j", "k", "l", "m", "n",
      "o", "p", "q", "r", "s", "t", "u", "v", "w", "x", "y", "z", "U+0430",
      "U+0431", "U+0432", "U+0433", "U+0434", "U+0435", "U+0436", "U+0437",
      "U+0438", "U+0439", "U+043A", "U+043B", "U+043C", "U+043D", "U+043E",
      "U+043F", "U+0440", "U+0441", "U+0442", "U+0443", "U+0444", "U+0445",
      "U+0446", "U+0447", "U+0448", "U+0449", "U+044A", "U+044B", "U+044C",
      "U+044D", "U+044E", "U+044F">>

IsUpper(c) == \E k \in DOMAIN UpperChars : UpperChars[k] = c

IsLower(c) == \E k \in DOMAIN LowerChars : LowerChars[k] = c

\* str.lower()
Lower(s) ==
    [k \in DOMAIN s |->
        IF IsUpper(s[k])
        THEN LowerChars[CHOOSE j \in DOMAIN UpperChars : UpperChars[j] = s[k]]
        ELSE s[k]]

\* \w of the re module
IsWordChar(c) == IsUpper(c) \/ IsLower(c) \/ IsDigit(c) \/ c = "_"

\* the first position of s from `from` on that holds one of chars, or
\* Len(s) + 1
FirstAt(s, from, chars) ==
    Least({k \in from..Len(s) : s[k] \in chars} \cup {Len(s) + 1})

\* the last position of s that holds one of chars, or 0
LastAt(s, chars) ==
    Len(s) + 1 - Least({Len(s) + 1 - k : k \in {j \in DOMAIN s : s[j] \in chars}}
                       \cup {Len(s) + 1})

\* urlsplit: what follows the scheme, given the position of the first ":"
AfterScheme(link, colon) ==
    IF /\ colon > 1
       /\ colon <= Len(link)
       /\ IsUpper(link[1]) \/ IsLower(link[1])
       /\ \A k \in 1..(colon - 1) :
              IsUpper(link[k]) \/ IsLower(link[k]) \/ IsDigit(link[k])
                  \/ link[k] \in {"+", "-", "."}
    THEN SubSeq(link, colon + 1, Len(link))
    ELSE link

\* urlsplit: the netloc
Netloc(rest) ==
    IF StartsWith(rest, <<"/", "/">>)
    THEN SubSeq(rest, 3, FirstAt(rest, 3, {"/", "?", "#"}) - 1)
    ELSE <<>>

\* the host of a netloc whose userinfo ends at position at
HostOf(netloc, at) == SubSeq(netloc, at + 1, FirstAt(netloc, at + 1, {":"}) - 1)

\* urlparse(link).hostname or "": the netloc without userinfo and port,
\* in lower case
hostname(link) ==
    Lower(HostOf(Netloc(AfterScheme(link, FirstAt(link, 1, {":"}))),
                 LastAt(Netloc(AfterScheme(link, FirstAt(link, 1, {":"}))), {"@"})))

\* str.removeprefix
RemovePrefix(s, p) == IF StartsWith(s, p) THEN SubSeq(s, Len(p) + 1, Len(s)) ELSE s

get_domain(link) == RemovePrefix(Lower(hostname(link)), <<"w", "w", "w", ".">>)

VIDEO_DOMAINS ==
    {<<"y", "o", "u", "t", "u", "b", "e", ".", "c", "o", "m">>,
     <<"y", "o", "u", "t", "u", ".", "b", "e">>,
     <<"v", "i", "m", "e", "o", ".", "c", "o", "m">>,
     <<"t", "w", "i", "t", "c", "h", ".", "t", "v">>}

SOCIAL_DOMAINS ==
    {<<"t", "w", "i", "t", "t", "e", "r", ".", "c", "o", "m">>,
     <<"x", ".", "c", "o", "m">>,
     <<"r", "e", "d", "d", "i", "t", ".", "c", "o", "m">>}

ARTICLE_DOMAINS ==
    {<<"8", "0", ".", "l", "v">>,
     <<"h", "a", "b", "r", ".", "c", "o", "m">>,
     <<"d", "t", "f", ".", "r", "u">>,
     <<"g", "a", "m", "e", "d", "e", "v", "e", "l", "o", "p", "e", "r", ".",
       "c", "o", "m">>,
     <<"n", "e", "w", "s", "l", "e", "t", "t", "e", "r", ".", "g", "a", "m",
       "e", "d", "i", "s", "c", "o", "v", "e", "r", ".", "c", "o">>,
     <<"k", "o", "t", "a", "k", "u", ".", "c", "o", "m">>,
     <<"v", "e", "n", "t", "u", "r", "e", "b", "e", "a", "t", ".", "c", "o",
       "m">>,
     <<"w", "c", "c", "f", "t", "e", "c", "h", ".", "c", "o", "m">>,
     <<"n", "p", "l", "u", "s", "1", ".", "r", "u">>,
     <<"3", "d", "n", "e", "w", "s", ".", "r", "u">>,
     <<"v", "c", ".", "r", "u">>}

REPO_DOMAINS ==
    {<<"g", "i", "t", "h", "u", "b", ".", "c", "o", "m">>,
     <<"g", "i", "t", "l", "a", "b", ".", "c", "o", "m">>}

STORE_DOMAINS ==
    {<<"s", "t", "o", "r", "e", ".", "s", "t", "e", "a", "m", "p", "o", "w",
       "e", "r", "e", "d", ".", "c", "o", "m">>,
     <<"s", "t", "o", "r", "e", ".", "e", "p", "i", "c", "g", "a", "m", "e",
       "s", ".", "c", "o", "m">>,
     <<"a", "s", "s", "e", "t", "s", "t", "o", "r", "e", ".", "u", "n", "i",
       "t", "y", ".", "c", "o", "m">>,
     <<"f", "a", "b", ".", "c", "o", "m">>,
     <<"i", "t", "c", "h", ".", "i", "o">>,
     <<"g", "u", "m", "r", "o", "a", "d", ".", "c", "o", "m">>}

\* any(domain.endswith(d) for d in domains): the suffix test without the dot
EndsWithAny(domain, domains) == \E d \in domains : EndsWith(domain, d)

\* any(domain.endswith("." + d) for d in domains)
IsSubdomain(domain, domains) == \E d \in domains : EndsWith(domain, <<".">> \o d)

classify_type(domain) ==
    IF domain \in VIDEO_DOMAINS THEN "video"
    ELSE IF domain \in SOCIAL_DOMAINS THEN "social"
    ELSE IF domain \in REPO_DOMAINS THEN "repository"
    ELSE IF domain \in STORE_DOMAINS THEN "store"
    ELSE IF domain \in ARTICLE_DOMAINS THEN "article"
    ELSE IF IsSubdomain(domain, VIDEO_DOMAINS) THEN "video"
    ELSE IF IsSubdomain(domain, SOCIAL_DOMAINS) THEN "social"
    ELSE IF IsSubdomain(domain, REPO_DOMAINS) THEN "repository"
    ELSE IF IsSubdomain(domain, STORE_DOMAINS) THEN "store"
    ELSE "article"

\* a word character at position k of s
WordAt(s, k) == k \in DOMAIN s /\ IsWordChar(s[k])

\* \b just before position k of s
Boundary(s, k) == WordAt(s, k - 1) # WordAt(s, k)

\* the search for word without the word boundaries
SearchSubstring(text, word) == Contains(text, word)

\* re.compile(r"\bword\b").search(text)
SearchWord(text, word) ==
    \E k \in 1..(Len(text) - Len(word) + 1) :
        /\ SubSeq(text, k, k + Len(word) - 1) = word
        /\ Boundary(text, k)
        /\ Boundary(text, k + Len(word))

RE_AI(text) == SearchWord(text, <<"A", "I">>)

RE_VR(text) == SearchWord(text, <<"V", "R">>)

RE_AR(text) == SearchWord(text, <<"A", "R">>)

RE_XR(text) == SearchWord(text, <<"X", "R">>)

\* re.IGNORECASE: the letters of the text and of the pattern are compared
\* in lower case
RE_FREE(text) == SearchWord(Lower(text), <<"f", "r", "e", "e">>)

RE_MAYA(text) == SearchWord(text, <<"M", "a", "y", "a">>)

RE_SWITCH(text) == SearchWord(text, <<"S", "w", "i", "t", "c", "h">>)

RE_UE4(text) == SearchWord(text, <<"U", "E", "4">>)

RE_UE5(text) == SearchWord(text, <<"U", "E", "5">>)

\* tags.append(tag) under a condition
Tag(cond, tag) == IF cond THEN <<tag>> ELSE <<>>

\* classify_tags, with lower = text.lower()
TagsOf(domain, text, lower) ==
    Tag(\/ EndsWith(domain, <<"u", "n", "r", "e", "a", "l", "e", "n", "g", "i", "n", "e", ".", "c", "o", "m">>)
        \/ Contains(lower, <<"u", "n", "r", "e", "a", "l", " ", "e", "n", "g", "i", "n", "e">>)
        \/ Contains(lower, <<"u", "n", "r", "e", "a", "l">>)
        \/ RE_UE4(text)
        \/ RE_UE5(text),
        "unreal engine")
    \o Tag(\/ domain \in {<<"b", "l", "o", "g", ".", "u", "n", "i", "t", "y", ".", "c", "o", "m">>,
                         <<"u", "n", "i", "t", "y", ".", "c", "o", "m">>}
           \/ EndsWith(domain, <<".", "u", "n", "i", "t", "y", ".", "c", "o", "m">>)
           \/ Contains(lower, <<"u", "n", "i", "t", "y">>),
           "unity")
    \o Tag(\/ EndsWith(domain, <<"g", "o", "d", "o", "t", "e", "n", "g", "i", "n", "e", ".", "o", "r", "g">>)
           \/ Contains(lower, <<"g", "o", "d", "o", "t">>),
           "godot")
    \o Tag(Contains(lower, <<"b", "l", "e", "n", "d", "e", "r">>), "blender")
    \o Tag(Contains(lower, <<"h", "o", "u", "d", "i", "n", "i">>), "houdini")
    \o Tag(Contains(lower, <<"s", "u", "b", "s", "t", "a", "n", "c", "e">>), "substance")
    \o Tag(RE_MAYA(text), "maya")
    \o Tag(Contains(lower, <<"z", "b", "r", "u", "s", "h">>), "zbrush")
    \o Tag(\/ domain \in REPO_DOMAINS
           \/ IsSubdomain(domain, REPO_DOMAINS)
           \/ Contains(lower, <<"o", "p", "e", "n", " ", "s", "o", "u", "r", "c", "e">>)
           \/ Contains(lower, <<"o", "p", "e", "n", "s", "o", "u", "r", "c", "e">>)
           \/ Contains(lower, <<"U+043E", "U+0442", "U+043A", "U+0440", "U+044B", "U+0442", "U+044B", "U+0439", " ", "U+043A", "U+043E", "U+0434">>)
           \/ Contains(lower, <<"o", "p", "e", "n", "-", "s", "o", "u", "r", "c", "e">>),
           "opensource")
    \o Tag(\/ Contains(lower, <<"U+0431", "U+0435", "U+0441", "U+043F", "U+043B", "U+0430", "U+0442", "U+043D">>)
           \/ RE_FREE(text)
           \/ domain = <<"i", "t", "c", "h", ".", "i", "o">>
           \/ EndsWith(domain, <<".", "i", "t", "c", "h", ".", "i", "o">>),
           "free")
    \o Tag(\/ EndsWith(domain, <<"s", "t", "e", "a", "m", "p", "o", "w", "e", "r", "e", "d", ".", "c", "o", "m">>)
           \/ Contains(lower, <<"s", "t", "e", "a", "m">>),
           "steam")
    \o Tag(\/ Contains(lower, <<"p", "l", "a", "y", "s", "t", "a", "t", "i", "o", "n">>)
           \/ Contains(text, <<"P", "S", "4">>)
           \/ Contains(text, <<"P", "S", "5">>),
           "playstation")
    \o Tag(Contains(lower, <<"x", "b", "o", "x">>), "xbox")
    \o Tag(\/ Contains(lower, <<"n", "i", "n", "t", "e", "n", "d", "o">>)
           \/ RE_SWITCH(text),
           "nintendo")
    \o Tag(\/ RE_AI(text)
           \/ Contains(lower, <<"m", "a", "c", "h", "i", "n", "e", " ", "l", "e", "a", "r", "n", "i", "n", "g">>)
           \/ Contains(lower, <<"U+043D", "U+0435", "U+0439", "U+0440", "U+043E", "U+0441", "U+0435", "U+0442">>)
           \/ Contains(lower, <<"U+0438", "U+0441", "U+043A", "U+0443", "U+0441", "U+0441", "U+0442", "U+0432", "U+0435", "U+043D", "U+043D">>),
           "ai")
    \o Tag(\/ RE_VR(text)
           \/ RE_AR(text)
           \/ RE_XR(text)
           \/ Contains(lower, <<"v", "i", "r", "t", "u", "a", "l", " ", "r", "e", "a", "l", "i", "t", "y">>)
           \/ Contains(lower, <<"U+0432", "U+0438", "U+0440", "U+0442", "U+0443", "U+0430", "U+043B", "U+044C", "U+043D">>),
           "xr")
    \o Tag(\/ Contains(lower, <<"s", "h", "a", "d", "e", "r">>)
           \/ Contains(lower, <<"U+0448", "U+0435", "U+0439", "U+0434", "U+0435", "U+0440">>),
           "shaders")
    \o Tag(\/ Contains(lower, <<"a", "n", "i", "m", "a", "t", "i", "o", "n">>)
           \/ Contains(lower, <<"U+0430", "U+043D", "U+0438", "U+043C", "U+0430", "U+0446", "U+0438">>),
           "animation")
    \o Tag(\/ Contains(lower, <<"p", "r", "o", "c", "e", "d", "u", "r", "a", "l">>)
           \/ Contains(lower, <<"U+043F", "U+0440", "U+043E", "U+0446", "U+0435", "U+0434", "U+0443", "U+0440", "U+043D">>),
           "procedural")

classify_tags(domain, text) == TagsOf(domain, text, Lower(text))

---------------------------------------------------------------------------
(* Inputs of classify.py.                                                  *)

\* links: every known domain, a subdomain of it and a longer name that
\* ends with its characters; other hosts; links without a host
ClassifyLinks ==
    {<<"h", "t", "t", "p", "s", ":", "/", "/", "y", "o", "u", "t", "u", "b",
       "e", ".", "c", "o", "m", "/", "x">>,
     <<"h", "t", "t", "p", "s", ":", "/", "/", "m", ".", "y", "o", "u", "t",
       "u", "b", "e", ".", "c", "o", "m", "/", "x">>,
     <<"h", "t", "t", "p", "s", ":", "/", "/", "m", "y", "y", "o", "u", "t",
       "u", "b", "e", ".", "c", "o", "m", "/", "x">>,
     <<"h", "t", "t", "p", "s", ":", "/", "/", "y", "o", "u", "t", "u", ".",
       "b", "e", "/", "x">>,
     <<"h", "t", "t", "p", "s", ":", "/", "/", "m", ".", "y", "o", "u", "t",
       "u", ".", "b", "e", "/", "x">>,
     <<"h", "t", "t", "p", "s", ":", "/", "/", "m", "y", "y", "o", "u", "t",
       "u", ".", "b", "e", "/", "x">>,
     <<"h", "t", "t", "p", "s", ":", "/", "/", "v", "i", "m", "e", "o", ".",
       "c", "o", "m", "/", "x">>,
     <<"h", "t", "t", "p", "s", ":", "/", "/", "m", ".", "v", "i", "m", "e",
       "o", ".", "c", "o", "m", "/", "x">>,
     <<"h", "t", "t", "p", "s", ":", "/", "/", "m", "y", "v", "i", "m", "e",
       "o", ".", "c", "o", "m", "/", "x">>,
     <<"h", "t", "t", "p", "s", ":", "/", "/", "t", "w", "i", "t", "c", "h",
       ".", "t", "v", "/", "x">>,
     <<"h", "t", "t", "p", "s", ":", "/", "/", "m", ".", "t", "w", "i", "t",
       "c", "h", ".", "t", "v", "/", "x">>,
     <<"h", "t", "t", "p", "s", ":", "/", "/", "m", "y", "t", "w", "i", "t",
       "c", "h", ".", "t", "v", "/", "x">>,
     <<"h", "t", "t", "p", "s", ":", "/", "/", "t", "w", "i", "t", "t", "e",
       "r", ".", "c", "o", "m", "/", "x">>,
     <<"h", "t", "t", "p", "s", ":", "/", "/", "m", ".", "t", "w", "i", "t",
       "t", "e", "r", ".", "c", "o", "m", "/", "x">>,
     <<"h", "t", "t", "p", "s", ":", "/", "/", "m", "y", "t", "w", "i", "t",
       "t", "e", "r", ".", "c", "o", "m", "/", "x">>,
     <<"h", "t", "t", "p", "s", ":", "/", "/", "x", ".", "c", "o", "m", "/",
       "x">>,
     <<"h", "t", "t", "p", "s", ":", "/", "/", "m", ".", "x", ".", "c", "o",
       "m", "/", "x">>,
     <<"h", "t", "t", "p", "s", ":", "/", "/", "m", "y", "x", ".", "c", "o",
       "m", "/", "x">>,
     <<"h", "t", "t", "p", "s", ":", "/", "/", "r", "e", "d", "d", "i", "t",
       ".", "c", "o", "m", "/", "x">>,
     <<"h", "t", "t", "p", "s", ":", "/", "/", "m", ".", "r", "e", "d", "d",
       "i", "t", ".", "c", "o", "m", "/", "x">>,
     <<"h", "t", "t", "p", "s", ":", "/", "/", "m", "y", "r", "e", "d", "d",
       "i", "t", ".", "c", "o", "m", "/", "x">>,
     <<"h", "t", "t", "p", "s", ":", "/", "/", "8", "0", ".", "l", "v", "/",
       "x">>,
     <<"h", "t", "t", "p", "s", ":", "/", "/", "m", ".", "8", "0", ".", "l",
       "v", "/", "x">>,
     <<"h", "t", "t", "p", "s", ":", "/", "/", "m", "y", "8", "0", ".", "l",
       "v", "/", "x">>,
     <<"h", "t", "t", "p", "s", ":", "/", "/", "h", "a", "b", "r", ".", "c",
       "o", "m", "/", "x">>,
     <<"h", "t", "t", "p", "s", ":", "/", "/", "m", ".", "h", "a", "b", "r",
       ".", "c", "o", "m", "/", "x">>,
     <<"h", "t", "t", "p", "s", ":", "/", "/", "m", "y", "h", "a", "b", "r",
       ".", "c", "o", "m", "/", "x">>,
     <<"h", "t", "t", "p", "s", ":", "/", "/", "d", "t", "f", ".", "r", "u",
       "/", "x">>,
     <<"h", "t", "t", "p", "s", ":", "/", "/", "m", ".", "d", "t", "f", ".",
       "r", "u", "/", "x">>,
     <<"h", "t", "t", "p", "s", ":", "/", "/", "m", "y", "d", "t", "f", ".",
       "r", "u", "/", "x">>,
     <<"h", "t", "t", "p", "s", ":", "/", "/", "g", "a", "m", "e", "d", "e",
       "v", "e", "l", "o", "p", "e", "r", ".", "c", "o", "m", "/", "x">>,
     <<"h", "t", "t", "p", "s", ":", "/", "/", "m", ".", "g", "a", "m", "e",
       "d", "e", "v", "e", "l", "o", "p", "e", "r", ".", "c", "o", "m", "/",
       "x">>,
     <<"h", "t", "t", "p", "s", ":", "/", "/", "m", "y", "g", "a", "m", "e",
       "d", "e", "v", "e", "l", "o", "p", "e", "r", ".", "c", "o", "m", "/",
       "x">>,
     <<"h", "t", "t", "p", "s", ":", "/", "/", "n", "e", "w", "s", "l", "e",
       "t", "t", "e", "r", ".", "g", "a", "m", "e", "d", "i", "s", "c", "o",
       "v", "e", "r", ".", "c", "o", "/", "x">>,
     <<"h", "t", "t", "p", "s", ":", "/", "/", "m", ".", "n", "e", "w", "s",
       "l", "e", "t", "t", "e", "r", ".", "g", "a", "m", "e", "d", "i", "s",
       "c", "o", "v", "e", "r", ".", "c", "o", "/", "x">>,
     <<"h", "t", "t", "p", "s", ":", "/", "/", "m", "y", "n", "e", "w", "s",
       "l", "e", "t", "t", "e", "r", ".", "g", "a", "m", "e", "d", "i", "s",
       "c", "o", "v", "e", "r", ".", "c", "o", "/", "x">>,
     <<"h", "t", "t", "p", "s", ":", "/", "/", "k", "o", "t", "a", "k", "u",
       ".", "c", "o", "m", "/", "x">>,
     <<"h", "t", "t", "p", "s", ":", "/", "/", "m", ".", "k", "o", "t", "a",
       "k", "u", ".", "c", "o", "m", "/", "x">>,
     <<"h", "t", "t", "p", "s", ":", "/", "/", "m", "y", "k", "o", "t", "a",
       "k", "u", ".", "c", "o", "m", "/", "x">>,
     <<"h", "t", "t", "p", "s", ":", "/", "/", "v", "e", "n", "t", "u", "r",
       "e", "b", "e", "a", "t", ".", "c", "o", "m", "/", "x">>,
     <<"h", "t", "t", "p", "s", ":", "/", "/", "m", ".", "v", "e", "n", "t",
       "u", "r", "e", "b", "e", "a", "t", ".", "c", "o", "m", "/", "x">>,
     <<"h", "t", "t", "p", "s", ":", "/", "/", "m", "y", "v", "e", "n", "t",
       "u", "r", "e", "b", "e", "a", "t", ".", "c", "o", "m", "/", "x">>,
     <<"h", "t", "t", "p", "s", ":", "/", "/", "w", "c", "c", "f", "t", "e",
       "c", "h", ".", "c", "o", "m", "/", "x">>,
     <<"h", "t", "t", "p", "s", ":", "/", "/", "m", ".", "w", "c", "c", "f",
       "t", "e", "c", "h", ".", "c", "o", "m", "/", "x">>,
     <<"h", "t", "t", "p", "s", ":", "/", "/", "m", "y", "w", "c", "c", "f",
       "t", "e", "c", "h", ".", "c", "o", "m", "/", "x">>,
     <<"h", "t", "t", "p", "s", ":", "/", "/", "n", "p", "l", "u", "s", "1",
       ".", "r", "u", "/", "x">>,
     <<"h", "t", "t", "p", "s", ":", "/", "/", "m", ".", "n", "p", "l", "u",
       "s", "1", ".", "r", "u", "/", "x">>,
     <<"h", "t", "t", "p", "s", ":", "/", "/", "m", "y", "n", "p", "l", "u",
       "s", "1", ".", "r", "u", "/", "x">>,
     <<"h", "t", "t", "p", "s", ":", "/", "/", "3", "d", "n", "e", "w", "s",
       ".", "r", "u", "/", "x">>,
     <<"h", "t", "t", "p", "s", ":", "/", "/", "m", ".", "3", "d", "n", "e",
       "w", "s", ".", "r", "u", "/", "x">>,
     <<"h", "t", "t", "p", "s", ":", "/", "/", "m", "y", "3", "d", "n", "e",
       "w", "s", ".", "r", "u", "/", "x">>,
     <<"h", "t", "t", "p", "s", ":", "/", "/", "v", "c", ".", "r", "u", "/",
       "x">>,
     <<"h", "t", "t", "p", "s", ":", "/", "/", "m", ".", "v", "c", ".", "r",
       "u", "/", "x">>,
     <<"h", "t", "t", "p", "s", ":", "/", "/", "m", "y", "v", "c", ".", "r",
       "u", "/", "x">>,
     <<"h", "t", "t", "p", "s", ":", "/", "/", "g", "i", "t", "h", "u", "b",
       ".", "c", "o", "m", "/", "x">>,
     <<"h", "t", "t", "p", "s", ":", "/", "/", "m", ".", "g", "i", "t", "h",
       "u", "b", ".", "c", "o", "m", "/", "x">>,
     <<"h", "t", "t", "p", "s", ":", "/", "/", "m", "y", "g", "i", "t", "h",
       "u", "b", ".", "c", "o", "m", "/", "x">>,
     <<"h", "t", "t", "p", "s", ":", "/", "/", "g", "i", "t", "l", "a", "b",
       ".", "c", "o", "m", "/", "x">>,
     <<"h", "t", "t", "p", "s", ":", "/", "/", "m", ".", "g", "i", "t", "l",
       "a", "b", ".", "c", "o", "m", "/", "x">>,
     <<"h", "t", "t", "p", "s", ":", "/", "/", "m", "y", "g", "i", "t", "l",
       "a", "b", ".", "c", "o", "m", "/", "x">>,
     <<"h", "t", "t", "p", "s", ":", "/", "/", "s", "t", "o", "r", "e", ".",
       "s", "t", "e", "a", "m", "p", "o", "w", "e", "r", "e", "d", ".", "c",
       "o", "m", "/", "x">>,
     <<"h", "t", "t", "p", "s", ":", "/", "/", "m", ".", "s", "t", "o", "r",
       "e", ".", "s", "t", "e", "a", "m", "p", "o", "w", "e", "r", "e", "d",
       ".", "c", "o", "m", "/", "x">>,
     <<"h", "t", "t", "p", "s", ":", "/", "/", "m", "y", "s", "t", "o", "r",
       "e", ".", "s", "t", "e", "a", "m", "p", "o", "w", "e", "r", "e", "d",
       ".", "c", "o", "m", "/", "x">>,
     <<"h", "t", "t", "p", "s", ":", "/", "/", "s", "t", "o", "r", "e", ".",
       "e", "p", "i", "c", "g", "a", "m", "e", "s", ".", "c", "o", "m", "/",
       "x">>,
     <<"h", "t", "t", "p", "s", ":", "/", "/", "m", ".", "s", "t", "o", "r",
       "e", ".", "e", "p", "i", "c", "g", "a", "m", "e", "s", ".", "c", "o",
       "m", "/", "x">>,
     <<"h", "t", "t", "p", "s", ":", "/", "/", "m", "y", "s", "t", "o", "r",
       "e", ".", "e", "p", "i", "c", "g", "a", "m", "e", "s", ".", "c", "o",
       "m", "/", "x">>,
     <<"h", "t", "t", "p", "s", ":", "/", "/", "a", "s", "s", "e", "t", "s",
       "t", "o", "r", "e", ".", "u", "n", "i", "t", "y", ".", "c", "o", "m",
       "/", "x">>,
     <<"h", "t", "t", "p", "s", ":", "/", "/", "m", ".", "a", "s", "s", "e",
       "t", "s", "t", "o", "r", "e", ".", "u", "n", "i", "t", "y", ".", "c",
       "o", "m", "/", "x">>,
     <<"h", "t", "t", "p", "s", ":", "/", "/", "m", "y", "a", "s", "s", "e",
       "t", "s", "t", "o", "r", "e", ".", "u", "n", "i", "t", "y", ".", "c",
       "o", "m", "/", "x">>,
     <<"h", "t", "t", "p", "s", ":", "/", "/", "f", "a", "b", ".", "c", "o",
       "m", "/", "x">>,
     <<"h", "t", "t", "p", "s", ":", "/", "/", "m", ".", "f", "a", "b", ".",
       "c", "o", "m", "/", "x">>,
     <<"h", "t", "t", "p", "s", ":", "/", "/", "m", "y", "f", "a", "b", ".",
       "c", "o", "m", "/", "x">>,
     <<"h", "t", "t", "p", "s", ":", "/", "/", "i", "t", "c", "h", ".", "i",
       "o", "/", "x">>,
     <<"h", "t", "t", "p", "s", ":", "/", "/", "m", ".", "i", "t", "c", "h",
       ".", "i", "o", "/", "x">>,
     <<"h", "t", "t", "p", "s", ":", "/", "/", "m", "y", "i", "t", "c", "h",
       ".", "i", "o", "/", "x">>,
     <<"h", "t", "t", "p", "s", ":", "/", "/", "g", "u", "m", "r", "o", "a",
       "d", ".", "c", "o", "m", "/", "x">>,
     <<"h", "t", "t", "p", "s", ":", "/", "/", "m", ".", "g", "u", "m", "r",
       "o", "a", "d", ".", "c", "o", "m", "/", "x">>,
     <<"h", "t", "t", "p", "s", ":", "/", "/", "m", "y", "g", "u", "m", "r",
       "o", "a", "d", ".", "c", "o", "m", "/", "x">>,
     <<"h", "t", "t", "p", "s", ":", "/", "/", "u", "n", "r", "e", "a", "l",
       "e", "n", "g", "i", "n", "e", ".", "c", "o", "m", "/", "x">>,
     <<"h", "t", "t", "p", "s", ":", "/", "/", "m", ".", "u", "n", "r", "e",
       "a", "l", "e", "n", "g", "i", "n", "e", ".", "c", "o", "m", "/", "x">>,
     <<"h", "t", "t", "p", "s", ":", "/", "/", "m", "y", "u", "n", "r", "e",
       "a", "l", "e", "n", "g", "i", "n", "e", ".", "c", "o", "m", "/", "x">>,
     <<"h", "t", "t", "p", "s", ":", "/", "/", "u", "n", "i", "t", "y", ".",
       "c", "o", "m", "/", "x">>,
     <<"h", "t", "t", "p", "s", ":", "/", "/", "m", ".", "u", "n", "i", "t",
       "y", ".", "c", "o", "m", "/", "x">>,
     <<"h", "t", "t", "p", "s", ":", "/", "/", "m", "y", "u", "n", "i", "t",
       "y", ".", "c", "o", "m", "/", "x">>,
     <<"h", "t", "t", "p", "s", ":", "/", "/", "b", "l", "o", "g", ".", "u",
       "n", "i", "t", "y", ".", "c", "o", "m", "/", "x">>,
     <<"h", "t", "t", "p", "s", ":", "/", "/", "m", ".", "b", "l", "o", "g",
       ".", "u", "n", "i", "t", "y", ".", "c", "o", "m", "/", "x">>,
     <<"h", "t", "t", "p", "s", ":", "/", "/", "m", "y", "b", "l", "o", "g",
       ".", "u", "n", "i", "t", "y", ".", "c", "o", "m", "/", "x">>,
     <<"h", "t", "t", "p", "s", ":", "/", "/", "g", "o", "d", "o", "t", "e",
       "n", "g", "i", "n", "e", ".", "o", "r", "g", "/", "x">>,
     <<"h", "t", "t", "p", "s", ":", "/", "/", "m", ".", "g", "o", "d", "o",
       "t", "e", "n", "g", "i", "n", "e", ".", "o", "r", "g", "/", "x">>,
     <<"h", "t", "t", "p", "s", ":", "/", "/", "m", "y", "g", "o", "d", "o",
       "t", "e", "n", "g", "i", "n", "e", ".", "o", "r", "g", "/", "x">>,
     <<"h", "t", "t", "p", "s", ":", "/", "/", "s", "t", "e", "a", "m", "p",
       "o", "w", "e", "r", "e", "d", ".", "c", "o", "m", "/", "x">>,
     <<"h", "t", "t", "p", "s", ":", "/", "/", "m", ".", "s", "t", "e", "a",
       "m", "p", "o", "w", "e", "r", "e", "d", ".", "c", "o", "m", "/", "x">>,
     <<"h", "t", "t", "p", "s", ":", "/", "/", "m", "y", "s", "t", "e", "a",
       "m", "p", "o", "w", "e", "r", "e", "d", ".", "c", "o", "m", "/", "x">>,
     <<"h", "t", "t", "p", "s", ":", "/", "/", "e", "x", "a", "m", "p", "l",
       "e", ".", "c", "o", "m", "/", "x">>,
     <<"h", "t", "t", "p", "s", ":", "/", "/", "n", "e", "t", "f", "l", "i",
       "x", ".", "c", "o", "m", "/", "x">>,
     <<"h", "t", "t", "p", "s", ":", "/", "/", "w", "w", "w", ".", "y", "o",
       "u", "t", "u", "b", "e", ".", "c", "o", "m">>,
     <<"h", "t", "t", "p", "s", ":", "/", "/", "w", "w", "w", ".", "x", ".",
       "c", "o", "m">>,
     <<"h", "t", "t", "p", "s", ":", "/", "/", "w", "w", "w", ".", "i", "t",
       "c", "h", ".", "i", "o">>,
     <<"h", "t", "t", "p", "s", ":", "/", "/", "w", "w", "w", ".", "e", "x",
       "a", "m", "p", "l", "e", ".", "c", "o", "m">>,
     <<"H", "T", "T", "P", "S", ":", "/", "/", "G", "i", "t", "H", "u", "b",
       ".", "C", "O", "M", ":", "4", "4", "3", "/", "a">>,
     <<"h", "t", "t", "p", "s", ":", "/", "/", "u", "s", "e", "r", "@", "v",
       "i", "m", "e", "o", ".", "c", "o", "m", "/", "1">>,
     <<"g", "i", "t", "h", "u", "b", ".", "c", "o", "m", "/", "x">>,
     <<"/", "a", "b", "o", "u", "t">>,
     <<>>}

ClassifyTitles ==
    {<<"A", "I", " ", "t", "o", "o", "l", "s">>,
     <<"G", "e", "n", "e", "r", "a", "t", "i", "v", "e", " ", "A", "I">>,
     <<"A", "I", "-", "p", "o", "w", "e", "r", "e", "d", " ", "N", "P", "C",
       "s">>,
     <<"p", "a", "i", "n", "t", "i", "n", "g", " ", "t", "e", "x", "t", "u",
       "r", "e", "s">>,
     <<"P", "A", "I", "N", "T", "I", "N", "G">>,
     <<"A", "I", "_", "a", "r", "t">>,
     <<"V", "R", " ", "h", "e", "a", "d", "s", "e", "t">>,
     <<"V", "R", "A", "M", " ", "b", "u", "d", "g", "e", "t">>,
     <<"A", "R", " ", "f", "i", "l", "t", "e", "r", "s">>,
     <<"A", "R", "P", "G", " ", "d", "e", "s", "i", "g", "n">>,
     <<"X", "R">>,
     <<"X", "R", "a", "y">>,
     <<"U", "E", "4", " ", "t", "i", "p", "s">>,
     <<"U", "E", "5", ".", "1", " ", "r", "e", "l", "e", "a", "s", "e">>,
     <<"U", "E", "5", "0">>,
     <<"M", "a", "y", "a", " ", "r", "i", "g">>,
     <<"M", "a", "y", "a", "n", " ", "t", "e", "m", "p", "l", "e">>,
     <<"m", "a", "y", "a">>,
     <<"S", "w", "i", "t", "c", "h", " ", "p", "o", "r", "t">>,
     <<"S", "w", "i", "t", "c", "h", "i", "n", "g", " ", "e", "n", "g", "i",
       "n", "e", "s">>,
     <<"f", "r", "e", "e", " ", "a", "s", "s", "e", "t", "s">>,
     <<"F", "R", "E", "E">>,
     <<"F", "r", "e", "e", "d", "o", "m">>,
     <<"f", "r", "e", "e", "-", "t", "o", "-", "p", "l", "a", "y">>,
     <<"m", "a", "c", "h", "i", "n", "e", " ", "l", "e", "a", "r", "n", "i",
       "n", "g">>,
     <<"U+043D", "U+0435", "U+0439", "U+0440", "U+043E", "U+0441", "U+0435",
       "U+0442", "U+0438">>,
     <<"U", "n", "r", "e", "a", "l", " ", "N", "i", "n", "t", "e", "n", "d",
       "o">>,
     <<"U+0431", "U+0435", "U+0441", "U+043F", "U+043B", "U+0430", "U+0442",
       "U+043D", "U+044B", "U+0439", " ", "B", "l", "e", "n", "d", "e", "r">>,
     <<>>}

ClassifyDescriptions ==
    {<<>>,
     <<"o", "n", " ", "S", "t", "e", "a", "m">>}

ClassifyRecords ==
    {[Link |-> l, Title |-> t, Description |-> d] :
        l \in ClassifyLinks, t \in ClassifyTitles, d \in ClassifyDescriptions}

---------------------------------------------------------------------------
(* SpecClassify: the body of the loop of classify.main on one record.      *)

InitClassify ==
    /\ RunIdle
    /\ pc = "classify_input"
    /\ rec \in ClassifyRecords
    /\ DateIdle
    /\ FetchDatesIdle
    /\ DigestIdle

\* rec["Type"] and rec["Tags"] of a record, with text its title and
\* description joined by a blank
Classified(r, domain, text) ==
    [Link |-> r.Link, Title |-> r.Title, Description |-> r.Description,
     Type |-> classify_type(domain), Tags |-> classify_tags(domain, text)]

ClassifyRecord ==
    /\ pc = "classify_input"
    /\ rec' = Classified(rec, get_domain(rec.Link),
                         rec.Title \o <<" ">> \o rec.Description)
    /\ pc' = "classified"
    /\ UNCHANGED <<dateVars, fetchDatesVars, digestVars, runVars>>

NextClassify == ClassifyRecord

SpecClassify == InitClassify /\ [][NextClassify]_vars

---------------------------------------------------------------------------
(* The digest page.  parse_digests.py and fetch_images.py read it with     *)
(* regular expressions; the model holds what those expressions see: the    *)
(* article region (or its absence) as the nodes before the first h3 and,   *)
(* for each h3, the nodes inside it and the nodes of the block up to the   *)
(* next h3.  A node is an <a href="..."> with its text, an <img src="...">,*)
(* or text between other tags.  The links are strings of chunks.           *)

\* <a href="href">text, followed by </a> if closed; an anchor the patterns
\* do not match (no href first, or an empty one) has href <<>>
Anchor(href, text, closed) ==
    [tag |-> "a", href |-> href, text |-> text, closed |-> closed]

Img(src) == [tag |-> "img", href |-> src, text |-> <<>>, closed |-> FALSE]

Para(text) == [tag |-> "text", href |-> <<>>, text |-> text, closed |-> FALSE]

\* re.sub(r'<[^>]+>', '', ...) of a run of nodes
RECURSIVE StripTags(_)
StripTags(nodes) ==
    IF nodes = <<>> THEN <<>> ELSE Head(nodes).text \o StripTags(Tail(nodes))

\* html.unescape
Unescape(s) == [k \in DOMAIN s |-> IF s[k] = "&amp;" THEN "&" ELSE s[k]]

\* a node that <a\s+href="([^"]+)" matches
IsAnchor(n) == n.tag = "a" /\ n.href # <<>>

\* the positions from k on where a </a> closes an anchor
ClosedFrom(nodes, k) == {j \in k..Len(nodes) : nodes[j].tag = "a" /\ nodes[j].closed}

\* where <a\s+href="([^"]+)"[^>]*>(.*?)</a> matches in the nodes of an h3
ClosedAnchors(nodes) ==
    {k \in DOMAIN nodes : IsAnchor(nodes[k]) /\ ClosedFrom(nodes, k) # {}}

\* where <a\s+href="([^"]+)"[^>]*> matches in the nodes of an h3
OpenedAnchors(nodes) == {k \in DOMAIN nodes : IsAnchor(nodes[k])}

\* the title of an h3, given the matches of the anchor pattern in it
H3Title(inner, anchors) ==
    IF anchors # {}
    THEN Strip(StripTags(SubSeq(inner, Least(anchors),
                                Least(ClosedFrom(inner, Least(anchors))))))
    ELSE Strip(StripTags(inner))

\* the link of an h3, given the matches of the anchor pattern in it
H3Link(inner, anchors) ==
    IF anchors # {} THEN Strip(inner[Least(anchors)].href) ELSE None

UPLOADS == <<"wp-content", "/", "uploads">>

\* the test of a link of the block
IsResourceLink(candidate) ==
    /\ ~Contains(candidate, UPLOADS)
    /\ ~StartsWith(candidate, <<"#">>)
    /\ StartsWith(candidate, <<"http">>)

\* the href of the first of the nodes at the positions hits, or None
FirstHref(nodes, hits) == IF hits = {} THEN None ELSE nodes[Least(hits)].href

\* the first link of the block that passes the test
BlockLink(block) ==
    FirstHref(block, {k \in DOMAIN block :
                         IsAnchor(block[k]) /\ IsResourceLink(block[k].href)})

\* 'suvitruf.ru' in link and 'wp-content' not in link
IsSelfLink(link) ==
    Contains(link, <<"suvitruf.ru">>) /\ ~Contains(link, <<"wp-content">>)

\* the text of the block: tags give blanks, runs of blanks give one
RECURSIVE JoinTexts(_)
JoinTexts(nodes) ==
    IF nodes = <<>> THEN <<>>
    ELSE IF Head(nodes).text = <<>> THEN JoinTexts(Tail(nodes))
    ELSE IF JoinTexts(Tail(nodes)) = <<>> THEN Head(nodes).text
    ELSE Head(nodes).text \o <<" ">> \o JoinTexts(Tail(nodes))

\* a chunk of text that stands for a run of 197 characters
LongText == "<197 characters>"

\* len() of a text of a block: its chunks are LongText, blanks, and words
\* of four characters
RECURSIVE StrLen(_)
StrLen(s) ==
    IF s = <<>> THEN 0
    ELSE (IF Head(s) = LongText THEN 197 ELSE IF Head(s) = " " THEN 1 ELSE 4)
         + StrLen(Tail(s))

\* s[:n], for n at the end of a chunk
RECURSIVE Take(_, _)
Take(s, n) ==
    IF s = <<>> \/ StrLen(<<Head(s)>>) > n THEN <<>>
    ELSE <<Head(s)>> \o Take(Tail(s), n - StrLen(<<Head(s)>>))

Truncated(desc_text) ==
    IF StrLen(desc_text) > 200 THEN Take(desc_text, 197) \o <<"...">> ELSE desc_text

DescriptionOf(block) == Truncated(Strip(JoinTexts(block)))

\* the candidate of a heading that has a title and a link, if it is kept
Candidate(title, link, block) ==
    IF ~Truthy(link) \/ IsSelfLink(link) THEN <<>>
    ELSE <<[Link |-> link, Title |-> title, Description |-> DescriptionOf(block)]>>

\* the candidates (none or one) of a heading with this title and h3 link
Resource(title, link, block) ==
    IF title = <<>> THEN <<>>
    ELSE Candidate(title, IF Truthy(link) THEN link ELSE BlockLink(block), block)

RECURSIVE ResourcesOf(_)
ResourcesOf(sections) ==
    IF sections = <<>> THEN <<>>
    ELSE Resource(Unescape(H3Title(Head(sections).h3, ClosedAnchors(Head(sections).h3))),
                  H3Link(Head(sections).h3, ClosedAnchors(Head(sections).h3)),
                  Head(sections).block)
         \o ResourcesOf(Tail(sections))

extract_resources_from_digest(doc) ==
    IF ~doc.article THEN <<>> ELSE ResourcesOf(doc.sections)

---------------------------------------------------------------------------
(* fetch_images.py.  A dict whose order of keys matters is a sequence of   *)
(* entries [key, value] in the order the keys were first set.              *)

DictHas(d, k) == \E j \in DOMAIN d : d[j].key = k

DictGet(d, k) == d[CHOOSE j \in DOMAIN d : d[j].key = k].value

DictPut(d, k, v) ==
    IF DictHas(d, k)
    THEN [j \in DOMAIN d |-> IF d[j].key = k THEN [key |-> k, value |-> v] ELSE d[j]]
    ELSE Append(d, [key |-> k, value |-> v])

\* the link extract_image_map takes for a heading
ImageLink(sec) ==
    IF OpenedAnchors(sec.h3) # {}
    THEN Strip(sec.h3[Least(OpenedAnchors(sec.h3))].href)
    ELSE BlockLink(sec.block)

\* a node that img_pattern matches
IsUpload(n) == n.tag = "img" /\ Contains(n.href, UPLOADS)

\* the first image of the zone, claimed or not
PickImageIgnoringClaims(zone, claimed) ==
    FirstHref(zone, {k \in DOMAIN zone : IsUpload(zone[k])})

\* the first image of the zone that is not claimed
PickImage(zone, claimed) ==
    FirstHref(zone, {k \in DOMAIN zone : IsUpload(zone[k]) /\ zone[k].href \notin claimed})

\* the zones of heading i (counted from 1)
AfterZone(doc, i) == doc.sections[i].block

BeforeZone(doc, i) == IF i > 1 THEN doc.sections[i - 1].block ELSE doc.lead

\* the before-zone searched first
FoundImageBeforeZoneFirst(doc, i, claimed) ==
    OrElse(PickImage(BeforeZone(doc, i), claimed), PickImage(AfterZone(doc, i), claimed))

\* found_img of heading i
FoundImage(doc, i, claimed) ==
    OrElse(PickImage(AfterZone(doc, i), claimed), PickImage(BeforeZone(doc, i), claimed))

\* the loop body reaches the search of the zones and finds an image
Claims(link, found) == Truthy(link) /\ ~IsSelfLink(link) /\ found # None

SizeSuffixes == {"-1024x420", "-300x200"}

Extensions == {".png", ".jpg", ".gif"}

\* WP_SIZE_RE.sub("", filename)
NoSize(f) ==
    IF Len(f) >= 2 /\ f[Len(f)] \in Extensions /\ f[Len(f) - 1] \in SizeSuffixes
    THEN SubSeq(f, 1, Len(f) - 2) \o <<f[Len(f)]>>
    ELSE f

\* os.path.splitext(filename)[0]
NoExt(f) ==
    IF Len(f) >= 2 /\ f[Len(f)] \in Extensions THEN SubSeq(f, 1, Len(f) - 1) ELSE f

\* name, or "image" for no name
OrImage(name) == IF name = <<>> THEN <<"image">> ELSE name

clean_filename(url) ==
    OrImage(NoExt(NoSize(SubSeq(SubSeq(url, 1, FirstAt(url, 1, {"?"}) - 1),
                                LastAt(SubSeq(url, 1, FirstAt(url, 1, {"?"}) - 1), {"/"}) + 1,
                                FirstAt(url, 1, {"?"}) - 1))))
    \o <<".jpg">>

\* the first of base_2.jpg, base_3.jpg, ... from counter on that is not used
RECURSIVE Numbered(_, _, _)
Numbered(base_name, used_filenames, counter) ==
    IF base_name \o <<"_">> \o IntToStr(counter) \o <<".jpg">> \notin used_filenames
    THEN base_name \o <<"_">> \o IntToStr(counter) \o <<".jpg">>
    ELSE Numbered(base_name, used_filenames, counter + 1)

FinalName(filename, used_filenames) ==
    IF filename \notin used_filenames THEN filename
    ELSE Numbered(SubSeq(filename, 1, Len(filename) - 1), used_filenames, 2)

LocalPath(digest_number, final_name) ==
    <<"assets", "/", "images", "/">> \o digest_number \o <<"/">> \o final_name

\* the tasks of process_digest_images: for every entry of the image map
\* its link and the local path of its image
RECURSIVE Tasks(_, _, _)
Tasks(entries, used_filenames, digest_number) ==
    IF entries = <<>> THEN <<>>
    ELSE <<[key |-> Head(entries).key,
            value |-> LocalPath(digest_number,
                                FinalName(clean_filename(Head(entries).value),
                                          used_filenames))]>>
         \o Tasks(Tail(entries),
                  used_filenames \cup {FinalName(clean_filename(Head(entries).value),
                                                 used_filenames)},
                  digest_number)

\* results: the tasks whose download succeeded
RECURSIVE Downloaded(_, _)
Downloaded(tasks, ok) ==
    IF tasks = <<>> THEN <<>>
    ELSE (IF Head(tasks).key \in ok THEN <<Head(tasks)>> ELSE <<>>)
         \o Downloaded(Tail(tasks), ok)

\* record["Image"] of the apply loop of main
ImageOf(record, progress) ==
    IF /\ DictHas(progress, IntToStr(record.DigestNumber))
       /\ DictHas(DictGet(progress, IntToStr(record.DigestNumber)), record.Link)
    THEN DictGet(DictGet(progress, IntToStr(record.DigestNumber)), record.Link)
    ELSE <<>>

ApplyImages(recs, progress) ==
    [k \in DOMAIN recs |-> Put(recs[k], "Image", ImageOf(recs[k], progress))]

---------------------------------------------------------------------------
(* Inputs of the parser and of the image pass.                             *)

MaxHeadings == 2

DigestNumber == 7

LinkA == <<"http", "s", "://", "a.example", "/", "post">>

LinkB == <<"http", "://", "b.example", "/">>

LinkC == <<"http", "s", "://", "c.example", "/", "art">>

LinkRelative == <<"/", "about">>

LinkFragment == <<"#", "top">>

LinkSelf == <<"http", "s", "://", "suvitruf.ru", "/", "page", "/", "2", "/">>

\* a link to another host that names the digest's host in its query
LinkMention == <<"http", "s", "://", "a.example", "/", "?via=", "suvitruf.ru">>

LinkUpload ==
    <<"http", "s", "://", "suvitruf.ru", "/", "wp-content", "/", "uploads", "/",
      "full", ".png">>

Img1 ==
    <<"http", "s", "://", "suvitruf.ru", "/", "wp-content", "/", "uploads", "/",
      "shot", "-1024x420", ".png">>

Img2 ==
    <<"http", "s", "://", "suvitruf.ru", "/", "wp-content", "/", "uploads", "/",
      "shot", ".jpg">>

ImgExternal == <<"http", "s", "://", "cdn.example", "/", "logo", ".png">>

\* what an h3 may hold
Headings ==
    {<<Anchor(LinkA, <<"Title", " ", "A">>, TRUE)>>,
     <<Anchor(LinkB, <<" ", "Tools", " ", "&amp;", " ", "B">>, TRUE)>>,
     <<Para(<<"Plain", " ", "title">>)>>,
     <<>>,
     <<Anchor(LinkC, <<>>, TRUE)>>,
     <<Anchor(LinkC, <<"Open">>, FALSE)>>,
     <<Anchor(LinkRelative, <<"About">>, TRUE)>>,
     <<Anchor(LinkSelf, <<"Next">>, TRUE)>>,
     <<Anchor(LinkMention, <<"Mention">>, TRUE)>>,
     <<Anchor(<<" ">>, <<"Blank">>, TRUE)>>}

\* what may follow an h3 up to the next one
Blocks ==
    {<<>>,
     <<Para(<<"desc">>), Img(ImgExternal), Img(Img1)>>,
     <<Para(<<LongText, " ", "text">>), Anchor(LinkUpload, <<>>, TRUE), Img(Img1),
       Anchor(LinkFragment, <<"back">>, TRUE), Anchor(LinkRelative, <<"more">>, TRUE),
       Anchor(LinkA, <<"read">>, TRUE), Anchor(LinkB, <<"also">>, TRUE), Img(Img2)>>}

\* what may stand in the article before the first h3
ArticleLeads == {<<>>, <<Para(<<"week">>), Img(Img2)>>}

Sections == {[h3 |-> h, block |-> b] : h \in Headings, b \in Blocks}

\* pages with an article of up to MaxHeadings headings, and a page without
\* an article
Documents ==
    {[article |-> TRUE, lead |-> l, sections |-> s] :
        l \in ArticleLeads, s \in UNION {[1..n -> Sections] : n \in 0..MaxHeadings}}
    \cup {[article |-> FALSE, lead |-> <<>>,
           sections |-> <<[h3 |-> <<Anchor(LinkA, <<"Title", " ", "A">>, TRUE)>>,
                           block |-> <<>>]>>]}

\* the records process_digest appends for the candidates, as far as the
\* passes modelled here read them
DigestRecords(candidates) ==
    [k \in DOMAIN candidates |->
        [Link |-> candidates[k].Link, Title |-> candidates[k].Title,
         Description |-> candidates[k].Description, DigestNumber |-> DigestNumber]]

---------------------------------------------------------------------------
(* SpecParse: extract_resources_from_digest applied to a page.             *)

InitParse ==
    /\ RunIdle
    /\ pc = "start"
    /\ digest_html \in Documents
    /\ resources = <<>>
    /\ h3_index = 0
    /\ claimed_images = {}
    /\ image_map = <<>>
    /\ results = <<>>
    /\ image_progress = <<>>
    /\ DateIdle
    /\ FetchDatesIdle
    /\ ClassifyIdle

ExtractResources ==
    /\ pc = "start"
    /\ resources' = extract_resources_from_digest(digest_html)
    /\ pc' = "parsed"
    /\ UNCHANGED <<digest_html, h3_index, claimed_images, image_map, results,
                   image_progress>>
    /\ UNCHANGED <<dateVars, fetchDatesVars, classifyVars, runVars>>

NextParse == ExtractResources

SpecParse == InitParse /\ [][NextParse]_vars

---------------------------------------------------------------------------
(* SpecImages: one run of fetch_images.main over the catalog that          *)
(* parse_digests made from the page, with nothing in image_progress.json.  *)

InitImages ==
    /\ RunIdle
    /\ pc = "start"
    /\ digest_html \in Documents
    /\ resources = <<>>
    /\ h3_index = 0
    /\ claimed_images = {}
    /\ image_map = <<>>
    /\ results = <<>>
    /\ image_progress = <<>>
    /\ data = <<>>
    /\ data_file = DigestRecords(extract_resources_from_digest(digest_html))
    /\ date_progress = EmptyMap
    /\ date_progress_file = EmptyMap
    /\ urls_to_process = <<>>
    /\ futures = EmptyMap
    /\ completed = 0
    /\ last_fetch = NoFetch
    /\ DateIdle
    /\ ClassifyIdle

\* main loads the catalog and process_digest_images fetches the page; if
\* it gets the page and the page has an article with headings, the loop
\* of extract_image_map begins, else the digest has no results
ImagesStart(fetched) ==
    /\ pc = "start"
    /\ data' = data_file
    /\ IF fetched /\ digest_html.article /\ digest_html.sections # <<>>
       THEN /\ pc' = "h3_loop"
            /\ image_progress' = image_progress
       ELSE /\ pc' = "apply"
            /\ image_progress' = DictPut(image_progress, IntToStr(DigestNumber), <<>>)
    /\ h3_index' = 0
    /\ claimed_images' = {}
    /\ image_map' = <<>>
    /\ results' = <<>>
    /\ UNCHANGED <<digest_html, resources, data_file, fetchProgressVars>>
    /\ UNCHANGED <<dateVars, classifyVars, runVars>>

\* one turn of the loop of extract_image_map over the headings
ImageMapStep ==
    /\ pc = "h3_loop"
    /\ h3_index < Len(digest_html.sections)
    /\ h3_index' = h3_index + 1
    /\ IF Claims(ImageLink(digest_html.sections[h3_index + 1]),
                 FoundImage(digest_html, h3_index + 1, claimed_images))
       THEN /\ claimed_images' =
                  claimed_images \cup {FoundImage(digest_html, h3_index + 1, claimed_images)}
            /\ image_map' =
                  DictPut(image_map, ImageLink(digest_html.sections[h3_index + 1]),
                          FoundImage(digest_html, h3_index + 1, claimed_images))
       ELSE UNCHANGED <<claimed_images, image_map>>
    /\ UNCHANGED <<pc, digest_html, resources, results, image_progress, data, data_file,
                   fetchProgressVars>>
    /\ UNCHANGED <<dateVars, classifyVars, runVars>>

\* the rest of process_digest_images: the downloads, of which those of the
\* links ok succeed, and the save of the progress by main
DownloadImages(ok) ==
    /\ pc = "h3_loop"
    /\ h3_index = Len(digest_html.sections)
    /\ results' = Downloaded(Tasks(image_map, {}, IntToStr(DigestNumber)), ok)
    /\ image_progress' = DictPut(image_progress, IntToStr(DigestNumber), results')
    /\ pc' = "apply"
    /\ UNCHANGED <<digest_html, resources, h3_index, claimed_images, image_map, data,
                   data_file, fetchProgressVars>>
    /\ UNCHANGED <<dateVars, classifyVars, runVars>>

\* the apply loop of main and the save of the catalog
ApplyImagesToData ==
    /\ pc = "apply"
    /\ data' = ApplyImages(data, image_progress)
    /\ data_file' = ApplyImages(data, image_progress)
    /\ pc' = "done"
    /\ UNCHANGED <<digest_html, resources, h3_index, claimed_images, image_map, results,
                   image_progress, fetchProgressVars>>
    /\ UNCHANGED <<dateVars, classifyVars, runVars>>

NextImages ==
    \/ \E fetched \in BOOLEAN : ImagesStart(fetched)
    \/ ImageMapStep
    \/ \E ok \in SUBSET {image_map[k].key : k \in DOMAIN image_map} : DownloadImages(ok)
    \/ ApplyImagesToData

SpecImages == InitImages /\ [][NextImages]_vars

---------------------------------------------------------------------------
(* parse_digests.py: process_digest and main.  A digest page is what       *)
(* fetch_url returned for a digest url: the groups the header pattern      *)
(* captures (or no header) and the article.  A resource page is what       *)
(* detect_language_and_author reads of it: the lang attribute and the      *)
(* author of each of its three sources.                                    *)

MONTHS_RU ==
    <<[key |-> <<"U+044F", "U+043D", "U+0432", "U+0430", "U+0440", "U+044F">>,
       value |-> 1],
      [key |-> <<"U+0444", "U+0435", "U+0432", "U+0440", "U+0430", "U+043B", "U+044F">>,
       value |-> 2],
      [key |-> <<"U+043C", "U+0430", "U+0440", "U+0442", "U+0430">>,
       value |-> 3],
      [key |-> <<"U+0430", "U+043F", "U+0440", "U+0435", "U+043B", "U+044F">>,
       value |-> 4],
      [key |-> <<"U+043C", "U+0430", "U+044F">>,
       value |-> 5],
      [key |-> <<"U+0438", "U+044E", "U+043D", "U+044F">>,
       value |-> 6],
      [key |-> <<"U+0438", "U+044E", "U+043B", "U+044F">>,
       value |-> 7],
      [key |-> <<"U+0430", "U+0432", "U+0433", "U+0443", "U+0441", "U+0442", "U+0430">>,
       value |-> 8],
      [key |-> <<"U+0441", "U+0435", "U+043D", "U+0442", "U+044F", "U+0431", "U+0440", "U+044F">>,
       value |-> 9],
      [key |-> <<"U+043E", "U+043A", "U+0442", "U+044F", "U+0431", "U+0440", "U+044F">>,
       value |-> 10],
      [key |-> <<"U+043D", "U+043E", "U+044F", "U+0431", "U+0440", "U+044F">>,
       value |-> 11],
      [key |-> <<"U+0434", "U+0435", "U+043A", "U+0430", "U+0431", "U+0440", "U+044F">>,
       value |-> 12]>>

\* f"{year}-{month:02d}-{day:02d}", the month MONTHS_RU.get(month_name, 1)
HeaderDate(year, month_name, day) ==
    IntToStr(year) \o <<"-">>
    \o Pad2(IF DictHas(MONTHS_RU, month_name) THEN DictGet(MONTHS_RU, month_name) ELSE 1)
    \o <<"-">> \o Pad2(day)

\* number and date; ok is false for the result (None, None)
parse_digest_header(html) ==
    IF ~html.header.found THEN [ok |-> FALSE, number |-> 0, date |-> None]
    ELSE [ok |-> TRUE, number |-> StrToInt(html.header.number),
          date |-> HeaderDate(StrToInt(html.header.year), Lower(html.header.month),
                              StrToInt(html.header.day))]

\* re.search(r'\.(ru|by|ua|kz)(/|$)', url)
IsRuUrl(url) ==
    \E p \in DOMAIN url :
        /\ url[p] = "."
        /\ p + 1 <= Len(url)
        /\ url[p + 1] \in {"ru", "by", "ua", "kz"}
        /\ (p + 1 = Len(url) \/ url[p + 2] = "/")

LanguageOf(url, page) ==
    IF page.got = "text" /\ page.lang # None THEN Lower(page.lang)
    ELSE IF IsRuUrl(url) THEN <<"ru">>
    ELSE <<"en">>

\* the author of the meta tags: dropped if it looks like a url
MetaAuthor(page) ==
    IF page.meta_author = None THEN <<>>
    ELSE IF StartsWith(Unescape(Strip(page.meta_author)), <<"http">>) THEN <<>>
    ELSE Unescape(Strip(page.meta_author))

SourceAuthor(value) == IF value = None THEN <<>> ELSE Unescape(Strip(value))

AuthorOf(page) ==
    IF page.got # "text" THEN <<>>
    ELSE IF MetaAuthor(page) # <<>> THEN MetaAuthor(page)
    ELSE IF SourceAuthor(page.ld_author) # <<>> THEN SourceAuthor(page.ld_author)
    ELSE SourceAuthor(page.rel_author)

\* res after process_single_resource, given the page of its link
process_single_resource(res, page) ==
    [Link |-> res.Link, Title |-> res.Title, Description |-> res.Description,
     Language |-> LanguageOf(res.Link, page), Author |-> AuthorOf(page)]

\* the records process_digest makes of the resources
NewRecords(res, number, date) ==
    [k \in DOMAIN res |->
        [Link |-> res[k].Link, Title |-> res[k].Title, Author |-> res[k].Author,
         Language |-> res[k].Language, Description |-> res[k].Description,
         DigestNumber |-> number, DigestDate |-> date]]

\* str(number) in progress
AlreadyProcessedNever(number, progress) == FALSE

AlreadyProcessed(number, progress) == IntToStr(number) \in DOMAIN progress

---------------------------------------------------------------------------
(* Inputs of parse_digests.                                                *)

MaxRuns == 2

MaxCalls == 3

LinkRu == <<"http", "s", "://", "habr", ".", "ru", "/", "post">>

DigestUrl1 == <<"http", "s", "://", "suvitruf.ru", "/", "digest", "-", "1", "/">>

DigestUrl2 == <<"http", "s", "://", "suvitruf.ru", "/", "digest", "-", "2", "/">>

DigestUrl3 == <<"http", "s", "://", "suvitruf.ru", "/", "digest", "-", "3", "/">>

DigestUrl4 == <<"http", "s", "://", "suvitruf.ru", "/", "about", "-", "digests", "/">>

DigestUrls == {DigestUrl1, DigestUrl2, DigestUrl3, DigestUrl4}

MonthMarch == <<"U+041C", "U+0430", "U+0440", "U+0442", "U+0430">>

Header(number, day, month, year) ==
    [found |-> TRUE, number |-> number, day |-> day, month |-> month, year |-> year]

\* no match of the header pattern
NoHeader == [found |-> FALSE, number |-> <<>>, day |-> <<>>, month |-> <<>>, year |-> <<>>]

Article(sections) == [article |-> TRUE, lead |-> <<>>, sections |-> sections]

SectionA ==
    [h3 |-> <<Anchor(LinkA, <<"Title", " ", "A">>, TRUE)>>, block |-> <<Para(<<"desc">>)>>]

SectionRu ==
    [h3 |-> <<Anchor(LinkRu, <<"Title", " ", "Ru">>, TRUE)>>, block |-> <<>>]

SectionEmpty == [h3 |-> <<>>, block |-> <<Para(<<"desc">>)>>]

\* the page fetch_url returns for a digest url, when it returns one
DigestPage(url) ==
    IF url = DigestUrl1
    THEN [got |-> "text",
          header |-> Header(<<"1">>, <<"7">>, MonthMarch, <<"2", "0", "2", "4">>),
          doc |-> Article(<<SectionA, SectionRu>>)]
    ELSE IF url = DigestUrl2
    THEN [got |-> "text",
          header |-> Header(<<"1", "2">>, <<"1", "4">>, <<"M", "a", "r", "c", "h">>,
                            <<"2", "0", "2", "4">>),
          doc |-> Article(<<SectionA>>)]
    ELSE IF url = DigestUrl3
    THEN [got |-> "text",
          header |-> Header(<<"3">>, <<"2", "1">>, MonthMarch, <<"2", "0", "2", "4">>),
          doc |-> Article(<<SectionEmpty>>)]
    ELSE [got |-> "text", header |-> NoHeader, doc |-> Article(<<SectionA>>)]

NoDigestPage == [got |-> "none", header |-> NoHeader, doc |-> Article(<<>>)]

NoResourcePage ==
    [got |-> "none", lang |-> None, meta_author |-> None, ld_author |-> None,
     rel_author |-> None]

ResourcePages ==
    {NoResourcePage,
     [got |-> "text", lang |-> <<"D", "E">>, meta_author |-> <<"http", "s", "://", "x">>,
      ld_author |-> <<" ", "Ann", " ", "&amp;", " ", "Co">>, rel_author |-> <<"Bob">>]}

---------------------------------------------------------------------------
(* SpecDigests: runs of parse_digests.main, each a sequence of             *)
(* process_digest calls for the digest urls the listing pages give.  A     *)
(* run loads data.json and processed_digests.json when it starts.          *)
(* SpecDigestsInterrupted: the same, with runs that are stopped at any     *)
(* point.                                                                  *)

InitDigests ==
    /\ pc = "start"
    /\ data = <<>>
    /\ data_file = <<>>
    /\ digest_progress = EmptyMap
    /\ digest_progress_file = EmptyMap
    /\ progress_at_start = EmptyMap
    /\ fetched_urls = {}
    /\ digest_call = NoCall
    /\ runs = 0
    /\ calls = 0
    /\ passes = <<>>
    /\ date_progress = EmptyMap
    /\ date_progress_file = EmptyMap
    /\ urls_to_process = <<>>
    /\ futures = EmptyMap
    /\ completed = 0
    /\ last_fetch = NoFetch
    /\ DateIdle
    /\ ClassifyIdle
    /\ DigestIdle

\* main: load_json of both files
StartRun ==
    /\ pc \in {"start", "stopped", "finished"}
    /\ runs < MaxRuns
    /\ data' = data_file
    /\ digest_progress' = digest_progress_file
    /\ progress_at_start' = digest_progress_file
    /\ fetched_urls' = {}
    /\ digest_call' = NoCall
    /\ resources' = <<>>
    /\ runs' = runs + 1
    /\ calls' = 0
    /\ pc' = "main"
    /\ UNCHANGED <<data_file, digest_progress_file>>
    /\ UNCHANGED <<digest_html, h3_index, claimed_images, image_map, results, image_progress>>
    /\ UNCHANGED <<dateVars, fetchProgressVars, classifyVars, passes>>

\* process_digest after the fetch and the header, for a digest that is not
\* in progress: without resources it is marked processed at once, with
\* resources the pool is next
DigestFound(url, header, found) ==
    IF found = <<>>
    THEN /\ digest_progress' = Put(digest_progress, IntToStr(header.number), url)
         /\ digest_progress_file' = Put(digest_progress, IntToStr(header.number), url)
         /\ UNCHANGED <<pc, resources, digest_call>>
    ELSE /\ resources' = found
         /\ digest_call' = [url |-> url, number |-> header.number, date |-> header.date]
         /\ pc' = "visit"
         /\ UNCHANGED <<digest_progress, digest_progress_file>>

\* main takes the next digest url of a listing page and process_digest
\* fetches it, reads the header and looks the number up in progress
ProcessDigest(url, html) ==
    /\ pc = "main"
    /\ calls < MaxCalls
    /\ calls' = calls + 1
    /\ fetched_urls' = fetched_urls \cup {url}
    /\ IF html.got # "text" \/ ~parse_digest_header(html).ok
       THEN UNCHANGED <<pc, resources, digest_call, digest_progress, digest_progress_file>>
       ELSE IF AlreadyProcessed(parse_digest_header(html).number, digest_progress)
       THEN UNCHANGED <<pc, resources, digest_call, digest_progress, digest_progress_file>>
       ELSE DigestFound(url, parse_digest_header(html),
                        extract_resources_from_digest(html.doc))
    /\ UNCHANGED <<data, data_file, progress_at_start, runs>>
    /\ UNCHANGED <<digest_html, h3_index, claimed_images, image_map, results, image_progress>>
    /\ UNCHANGED <<dateVars, fetchProgressVars, classifyVars, passes>>

\* the pool: process_single_resource fetches the link of every resource
VisitResources(pages) ==
    /\ pc = "visit"
    /\ resources' = [k \in DOMAIN resources |-> process_single_resource(resources[k], pages[k])]
    /\ fetched_urls' = fetched_urls \cup {resources[k].Link : k \in DOMAIN resources}
    /\ pc' = "records"
    /\ UNCHANGED <<data, data_file, digest_progress, digest_progress_file,
                   progress_at_start, digest_call, runs, calls>>
    /\ UNCHANGED <<digest_html, h3_index, claimed_images, image_map, results, image_progress>>
    /\ UNCHANGED <<dateVars, fetchProgressVars, classifyVars, passes>>

\* data.extend(new_records); save_json(DATA_FILE, data)
SaveRecords ==
    /\ pc = "records"
    /\ data' = data \o NewRecords(resources, digest_call.number, digest_call.date)
    /\ data_file' = data \o NewRecords(resources, digest_call.number, digest_call.date)
    /\ pc' = "mark"
    /\ UNCHANGED <<resources, digest_progress, digest_progress_file, progress_at_start,
                   fetched_urls, digest_call, runs, calls>>
    /\ UNCHANGED <<digest_html, h3_index, claimed_images, image_map, results, image_progress>>
    /\ UNCHANGED <<dateVars, fetchProgressVars, classifyVars, passes>>

\* progress[str(number)] = digest_url; save_json(PROGRESS_FILE, progress)
MarkProcessed ==
    /\ pc = "mark"
    /\ digest_progress' = Put(digest_progress, IntToStr(digest_call.number), digest_call.url)
    /\ digest_progress_file' =
           Put(digest_progress, IntToStr(digest_call.number), digest_call.url)
    /\ resources' = <<>>
    /\ digest_call' = NoCall
    /\ pc' = "main"
    /\ UNCHANGED <<data, data_file, progress_at_start, fetched_urls, runs, calls>>
    /\ UNCHANGED <<digest_html, h3_index, claimed_images, image_map, results, image_progress>>
    /\ UNCHANGED <<dateVars, fetchProgressVars, classifyVars, passes>>

\* the loop over the listing pages ends
FinishRun ==
    /\ pc = "main"
    /\ pc' = "finished"
    /\ UNCHANGED <<data, data_file, resources, runVars>>
    /\ UNCHANGED <<digest_html, h3_index, claimed_images, image_map, results, image_progress>>
    /\ UNCHANGED <<dateVars, fetchProgressVars, classifyVars, passes>>

\* the process is stopped: what it held in memory is gone, the files stay
Interrupt ==
    /\ pc \in {"main", "visit", "records", "mark"}
    /\ pc' = "stopped"
    /\ data' = <<>>
    /\ digest_progress' = EmptyMap
    /\ resources' = <<>>
    /\ digest_call' = NoCall
    /\ UNCHANGED <<data_file, digest_progress_file, progress_at_start, fetched_urls,
                   runs, calls>>
    /\ UNCHANGED <<digest_html, h3_index, claimed_images, image_map, results, image_progress>>
    /\ UNCHANGED <<dateVars, fetchProgressVars, classifyVars, passes>>

NextDigests ==
    \/ StartRun
    \/ \E url \in DigestUrls : \E html \in {NoDigestPage, DigestPage(url)} :
           ProcessDigest(url, html)
    \/ \E pages \in [DOMAIN resources -> ResourcePages] : VisitResources(pages)
    \/ SaveRecords
    \/ MarkProcessed
    \/ FinishRun

SpecDigests == InitDigests /\ [][NextDigests]_vars

NextDigestsInterrupted ==
    \/ NextDigests
    \/ Interrupt

SpecDigestsInterrupted == InitDigests /\ [][NextDigestsInterrupted]_vars

---------------------------------------------------------------------------
(* SpecPool: the thread pool of process_digest.  The digest has been       *)
(* fetched and its resources extracted; one worker per resource runs       *)
(* process_single_resource, the workers finish in any order, each by       *)
(* returning or by raising, and the main thread takes the finished         *)
(* futures in the order as_completed yields them: the order of             *)
(* completion.  Here futures is the sequence of the finished workers:      *)
(* the index of the resource, whether the worker raised, and the page it   *)
(* read.                                                                   *)

MaxResources == 3

\* the articles of the digest: up to MaxResources headings, two of them
\* possibly with the same link
PoolDocuments ==
    {Article(sections) :
        sections \in UNION {[1..n -> {SectionA, SectionRu}] : n \in 1..MaxResources}}

\* the except branch of the loop over as_completed, applied to every resource
HandleFailureForAll(res, k) ==
    [j \in DOMAIN res |-> Put(Put(res[j], "Language", <<"en">>), "Author", <<>>)]

\* the except branch of the loop over as_completed: res = futures[future]
HandleFailure(res, k) ==
    [res EXCEPT ![k] = Put(Put(res[k], "Language", <<"en">>), "Author", <<>>)]

Finished == {futures[j].index : j \in DOMAIN futures}

InitPool ==
    /\ pc = "visit"
    /\ \E doc \in PoolDocuments : resources = extract_resources_from_digest(doc)
    /\ digest_call = [url |-> DigestUrl1, number |-> 1,
                      date |-> <<"2", "0", "2", "4", "-", "0", "3", "-", "0", "7">>]
    /\ data = <<>>
    /\ data_file = <<>>
    /\ digest_progress = EmptyMap
    /\ digest_progress_file = EmptyMap
    /\ progress_at_start = EmptyMap
    /\ fetched_urls = {DigestUrl1}
    /\ runs = 1
    /\ calls = 1
    /\ passes = <<>>
    /\ futures = <<>>
    /\ completed = 0
    /\ date_progress = EmptyMap
    /\ date_progress_file = EmptyMap
    /\ urls_to_process = <<>>
    /\ last_fetch = NoFetch
    /\ digest_html = [article |-> FALSE, lead |-> <<>>, sections |-> <<>>]
    /\ h3_index = 0
    /\ claimed_images = {}
    /\ image_map = <<>>
    /\ results = <<>>
    /\ image_progress = <<>>
    /\ DateIdle
    /\ ClassifyIdle

PoolFrame ==
    /\ UNCHANGED <<data, data_file, digest_progress, digest_progress_file,
                   progress_at_start, digest_call, runs, calls, passes>>
    /\ UNCHANGED <<date_progress, date_progress_file, urls_to_process, last_fetch>>
    /\ UNCHANGED <<digest_html, h3_index, claimed_images, image_map, results, image_progress>>
    /\ UNCHANGED <<dateVars, classifyVars>>

\* the worker of resource k returns: it has set res["Language"] and
\* res["Author"] of its own resource
WorkerReturns(k, page) ==
    /\ pc = "visit"
    /\ k \in DOMAIN resources
    /\ k \notin Finished
    /\ resources' = [resources EXCEPT ![k] = process_single_resource(resources[k], page)]
    /\ futures' = Append(futures, [index |-> k, raised |-> FALSE, page |-> page])
    /\ fetched_urls' = fetched_urls \cup {resources[k].Link}
    /\ UNCHANGED <<pc, completed>>
    /\ PoolFrame

\* the worker of resource k raises before it has set anything
WorkerRaises(k) ==
    /\ pc = "visit"
    /\ k \in DOMAIN resources
    /\ k \notin Finished
    /\ futures' = Append(futures, [index |-> k, raised |-> TRUE, page |-> NoResourcePage])
    /\ fetched_urls' = fetched_urls \cup {resources[k].Link}
    /\ UNCHANGED <<pc, completed, resources>>
    /\ PoolFrame

\* one turn of the loop over as_completed: future.result(), and the except
\* branch if it raises; after the last future the with block ends
CollectFuture ==
    /\ pc = "visit"
    /\ completed < Len(futures)
    /\ completed' = completed + 1
    /\ resources' = IF futures[completed + 1].raised
                    THEN HandleFailure(resources, futures[completed + 1].index)
                    ELSE resources
    /\ pc' = IF completed + 1 = Len(resources) THEN "records" ELSE "visit"
    /\ UNCHANGED <<futures, fetched_urls>>
    /\ PoolFrame

NextPool ==
    \/ \E k \in 1..MaxResources : \E page \in ResourcePages : WorkerReturns(k, page)
    \/ \E k \in 1..MaxResources : WorkerRaises(k)
    \/ CollectFuture
    \/ SaveRecords
    \/ MarkProcessed

SpecPool == InitPool /\ [][NextPool]_vars

---------------------------------------------------------------------------
(* SpecPasses: the enrichment passes run one after another, in any order,  *)
(* over one catalog: fetch_dates.main and fetch_images.main with progress  *)
(* stores that have every url and every digest (so that nothing is         *)
(* fetched and the pass is its apply loop), and classify.main.  Each pass  *)
(* loads data.json and saves it.  The links are strings of characters, as  *)
(* get_domain reads them.                                                  *)

MaxPasses == 3

\* rec["Type"] = ...; rec["Tags"] = ... on a record rebuilt from the fields
\* the pass reads
ClassifyDroppingFields(r, domain, text) ==
    [Link |-> r.Link, Title |-> r.Title, Description |-> r.Description,
     Type |-> classify_type(domain), Tags |-> classify_tags(domain, text)]

\* rec["Type"] = classify_type(domain); rec["Tags"] = classify_tags(domain, text)
ClassifyFields(r, domain, text) ==
    Put(Put(r, "Type", classify_type(domain)), "Tags", classify_tags(domain, text))

\* the loop of classify.main
ClassifyAll(recs) ==
    [k \in DOMAIN recs |->
        ClassifyFields(recs[k], get_domain(recs[k].Link),
                       recs[k].Title \o <<" ">> \o recs[k].Description)]

PassLinkRepo == <<"h", "t", "t", "p", "s", ":", "/", "/", "g", "i", "t", "h", "u", "b", ".", "c", "o", "m", "/", "x">>

PassLinkEngine == <<"h", "t", "t", "p", "s", ":", "/", "/", "d", "o", "c", "s", ".", "u", "n", "r", "e", "a", "l", "e", "n", "g", "i", "n", "e", ".", "c", "o", "m", "/", "x">>

PassLinkPlain == <<"h", "t", "t", "p", "s", ":", "/", "/", "e", "x", "a", "m", "p", "l", "e", ".", "c", "o", "m", "/", "a">>

PassLinks == {PassLinkRepo, PassLinkEngine, PassLinkPlain}

PassTitles == {<<"F", "r", "e", "e", " ", "A", "I", " ", "t", "o", "o", "l", "s">>, <<"P", "l", "a", "i", "n", " ", "n", "e", "w", "s">>}

PassDescriptions == {<<"o", "n", " ", "S", "t", "e", "a", "m">>}

PassRecords ==
    {[Link |-> l, Title |-> t, Description |-> d, DigestNumber |-> n] :
        l \in PassLinks, t \in PassTitles, d \in PassDescriptions, n \in {DigestNumber, 8}}

PassCatalogs == UNION {[1..n -> PassRecords] : n \in 0..MaxRecords}

PassDate == <<"0", "4", ".", "0", "7", ".", "2", "0", "2", "2">>

\* date_progress.json with every url of the catalog
PassDateProgress ==
    {[l \in PassLinks |-> IF l = PassLinkRepo THEN PassDate ELSE DEFAULT_DATE],
     [l \in PassLinks |-> PassDate]}

PassImage == <<"assets", "/", "images", "/", "7", "/", "shot", ".png">>

\* image_progress.json with every digest of the catalog
PassImageProgress ==
    {<<[key |-> <<"7">>, value |-> <<[key |-> PassLinkRepo, value |-> PassImage]>>],
       [key |-> <<"8">>, value |-> <<>>]>>,
     <<[key |-> <<"7">>, value |-> <<>>], [key |-> <<"8">>, value |-> <<>>]>>}

InitPasses ==
    /\ pc = "passes"
    /\ passes = <<>>
    /\ data = <<>>
    /\ data_file \in PassCatalogs
    /\ date_progress_file \in PassDateProgress
    /\ image_progress \in PassImageProgress
    /\ date_progress = EmptyMap
    /\ urls_to_process = <<>>
    /\ futures = EmptyMap
    /\ completed = 0
    /\ last_fetch = NoFetch
    /\ digest_html = [article |-> FALSE, lead |-> <<>>, sections |-> <<>>]
    /\ resources = <<>>
    /\ h3_index = 0
    /\ claimed_images = {}
    /\ image_map = <<>>
    /\ results = <<>>
    /\ digest_progress = EmptyMap
    /\ digest_progress_file = EmptyMap
    /\ progress_at_start = EmptyMap
    /\ fetched_urls = {}
    /\ digest_call = NoCall
    /\ runs = 0
    /\ calls = 0
    /\ DateIdle
    /\ ClassifyIdle

\* what no pass touches
PassFrame ==
    /\ UNCHANGED <<pc, date_progress_file, image_progress, urls_to_process, futures,
                   completed, last_fetch, rec>>
    /\ UNCHANGED <<digest_html, resources, h3_index, claimed_images, image_map, results>>
    /\ UNCHANGED <<digest_progress, digest_progress_file, progress_at_start, fetched_urls,
                   digest_call, runs, calls>>
    /\ UNCHANGED dateVars

\* fetch_dates.main with no url to process: apply_dates and return
DatePass ==
    /\ pc = "passes"
    /\ Len(passes) < MaxPasses
    /\ CollectUrls(data_file, date_progress_file, {}) = <<>>
    /\ date_progress' = date_progress_file
    /\ data' = apply_dates(data_file, date_progress_file)
    /\ data_file' = apply_dates(data_file, date_progress_file)
    /\ passes' = Append(passes, "dates")
    /\ PassFrame

\* fetch_images.main with no digest to process: the apply loop and the save
ImagePass ==
    /\ pc = "passes"
    /\ Len(passes) < MaxPasses
    /\ data' = ApplyImages(data_file, image_progress)
    /\ data_file' = ApplyImages(data_file, image_progress)
    /\ passes' = Append(passes, "images")
    /\ UNCHANGED date_progress
    /\ PassFrame

\* classify.main
ClassifyPass ==
    /\ pc = "passes"
    /\ Len(passes) < MaxPasses
    /\ data' = ClassifyAll(data_file)
    /\ data_file' = ClassifyAll(data_file)
    /\ passes' = Append(passes, "classify")
    /\ UNCHANGED date_progress
    /\ PassFrame

NextPasses ==
    \/ DatePass
    \/ ImagePass
    \/ ClassifyPass

SpecPasses == InitPasses /\ [][NextPasses]_vars

---------------------------------------------------------------------------
(* Claims about parse_date_string.                                         *)

\* t is a run of minLen..maxLen digits whose value lies in lo..hi
IsField(t, minLen, maxLen, lo, hi) ==
    /\ Len(t) >= minLen
    /\ Len(t) <= maxLen
    /\ \A k \in DOMAIN t : IsDigit(t[k])
    /\ StrToInt(t) >= lo
    /\ StrToInt(t) <= hi

\* s begins with three fields joined by sep, the year in position yearAt,
\* the month in position monthAt and the day in position dayAt
BeginsWithShape(s, sep, yearAt, monthAt, dayAt) ==
    \E i, j, k \in DOMAIN s :
        /\ i < j
        /\ j < k
        /\ s[i] = sep
        /\ s[j] = sep
        /\ LET f == <<SubSeq(s, 1, i - 1), SubSeq(s, i + 1, j - 1), SubSeq(s, j + 1, k)>>
           IN  /\ IsField(f[yearAt], 4, 4, 1990, 2030)
               /\ IsField(f[monthAt], 1, 2, 1, 12)
               /\ IsField(f[dayAt], 1, 2, 1, 31)

BeginsWithDate(s) ==
    \/ BeginsWithShape(s, "-", 1, 2, 3)
    \/ BeginsWithShape(s, "/", 3, 1, 2)
    \/ BeginsWithShape(s, ".", 3, 2, 1)

\* C6: parse_date_string returns a date only when the trimmed input begins
\* with a year-first dashed, month-first slashed or day-first dotted shape
\* with a four-digit year in 1990..2030, a month in 1..12 and a day in
\* 1..31; every other input (empty, None, out of range, no shape) gives None.
C6_DateOnlyForValidShape ==
    pc # "input" =>
        /\ parsed # Unset
        /\ parsed # None => (Truthy(raw) /\ BeginsWithDate(Strip(raw)))

C6_Witness ==
    /\ pc = "parsed"
    /\ raw = <<" ", "2", "0", "2", "3", "-", "0", "3", "-", "1", "5",
               "T", "1", "0", ":", "0", "0">>
    /\ parsed = <<"1", "5", ".", "0", "3", ".", "2", "0", "2", "3">>

\* d is two digits, a dot, two digits, a dot, four digits
ZeroPadded(d) ==
    /\ Len(d) = 10
    /\ d[3] = "."
    /\ d[6] = "."
    /\ \A k \in {1, 2, 4, 5, 7, 8, 9, 10} : IsDigit(d[k])

\* C7: every result of parse_date_string other than None is a zero-padded
\* day.month.year string, and parse_date_string maps it to itself.
C7_PaddedAndIdempotent ==
    /\ (pc # "input" /\ parsed # None) => ZeroPadded(parsed)
    /\ pc = "renormalized" => reparsed = parsed

C7_Witness ==
    /\ pc = "renormalized"
    /\ raw = <<"0", "3", "/", "5", "/", "2", "0", "2", "3">>
    /\ reparsed = <<"0", "5", ".", "0", "3", ".", "2", "0", "2", "3">>

---------------------------------------------------------------------------
(* Claims about process_single_url and apply_dates.                        *)

\* the date the url pattern stage gives for each url of the model, or None
ExpectedUrlDate(url) ==
    IF url = UrlSlashed THEN <<"0", "4", ".", "0", "7", ".", "2", "0", "2", "2">>
    ELSE IF url = UrlDashed THEN <<"3", "0", ".", "1", "1", ".", "2", "0", "2", "1">>
    ELSE None

\* some stage that reads the document finds a raw value that is a date
DocumentHasDate(html) ==
    \E r \in {RawOg, RawMeta, RawLd, RawTime} :
        \/ html.og = r
        \/ \E n \in DOMAIN html.meta : html.meta[n] = r
        \/ \E k \in DOMAIN html.ld : html.ld[k] = r
        \/ \E k \in DOMAIN html.time : html.time[k] = r

\* C8: process_single_url always returns a date; when the fetch gave no
\* document, or a document in which every stage fails, the date is the one
\* of the url pattern if the url has one and the sentinel 01.01.1970
\* otherwise; after apply_dates every record has a Date.
C8_AlwaysADate ==
    /\ \A u \in DOMAIN futures : ZeroPadded(futures[u])
    /\ \A u \in DOMAIN date_progress : ZeroPadded(date_progress[u])
    /\ (last_fetch # NoFetch /\ (last_fetch.html.got # "text" \/ ~DocumentHasDate(last_fetch.html)))
          => futures[last_fetch.url] = IF ExpectedUrlDate(last_fetch.url) # None
                                       THEN ExpectedUrlDate(last_fetch.url)
                                       ELSE DEFAULT_DATE
    /\ pc = "done" =>
          /\ Len(data) = Len(data_file)
          /\ \A k \in DOMAIN data : "Date" \in DOMAIN data[k] /\ ZeroPadded(data[k].Date)
          /\ \A k \in DOMAIN data_file : "Date" \in DOMAIN data_file[k]

C8_Witness ==
    /\ pc = "done"
    /\ last_fetch = [url |-> UrlSlashed, html |-> NoHtml]
    /\ Len(data) = 2
    /\ data[1].Link = UrlSlashed
    /\ data[1].Date = <<"0", "4", ".", "0", "7", ".", "2", "0", "2", "2">>
    /\ data[2].Link = UrlOutOfRange
    /\ data[2].Date = DEFAULT_DATE

---------------------------------------------------------------------------
(* Claims about classify_type and classify_tags.                           *)

TypeLabels == {"video", "social", "repository", "store", "article"}

\* the four closed label sets in the order of the reference
LabelSets ==
    <<[label |-> "video", domains |-> VIDEO_DOMAINS],
      [label |-> "social", domains |-> SOCIAL_DOMAINS],
      [label |-> "repository", domains |-> REPO_DOMAINS],
      [label |-> "store", domains |-> STORE_DOMAINS]>>

\* domain is something, a dot, and then d
IsBelow(domain, d) ==
    \E n \in 0..Len(domain) : domain = SubSeq(domain, 1, n) \o <<".">> \o d

ExactSets(domain) == {k \in DOMAIN LabelSets : domain \in LabelSets[k].domains}

SubdomainSets(domain) ==
    {k \in DOMAIN LabelSets : \E d \in LabelSets[k].domains : IsBelow(domain, d)}

ReferenceType(domain) ==
    IF ExactSets(domain) # {} THEN LabelSets[Least(ExactSets(domain))].label
    ELSE IF SubdomainSets(domain) # {} THEN LabelSets[Least(SubdomainSets(domain))].label
    ELSE "article"

\* domain ends with the characters of a known domain, but is neither that
\* domain nor a subdomain of it or of another known domain
EndsLikeKnownOnly(domain) ==
    /\ \E k \in DOMAIN LabelSets : \E d \in LabelSets[k].domains : EndsWith(domain, d)
    /\ ExactSets(domain) = {}
    /\ SubdomainSets(domain) = {}

\* C9: classify_type gives every domain exactly one of the five labels,
\* the one of the reference order (exact membership in video, social,
\* repository, store, then subdomain of one of them in the same order, else
\* article); a domain that only ends with the characters of a known domain,
\* without the dot, is an article.
C9_TypeByReferenceOrder ==
    pc = "classified" =>
        /\ rec.Type \in TypeLabels
        /\ rec.Type = ReferenceType(get_domain(rec.Link))
        /\ EndsLikeKnownOnly(get_domain(rec.Link)) => rec.Type = "article"

C9_Witness ==
    /\ pc = "classified"
    /\ rec.Link = <<"h", "t", "t", "p", "s", ":", "/", "/", "n", "e", "t", "f", "l", "i", "x", ".", "c", "o", "m", "/", "x">>
    /\ EndsLikeKnownOnly(get_domain(rec.Link))
    /\ rec.Type = "article"

\* the text classify_tags is given for the record
TextOf(r) == r.Title \o <<" ">> \o r.Description

\* positions a..b of the text hold a word: a maximal run of word characters
IsWord(text, a, b) ==
    /\ a <= b
    /\ b <= Len(text)
    /\ \A k \in a..b : IsWordChar(text[k])
    /\ ~WordAt(text, a - 1)
    /\ ~WordAt(text, b + 1)

\* one of the tokens is a word of the text
HasWord(text, tokens) ==
    \E t \in tokens : \E a \in DOMAIN text :
        IsWord(text, a, a + Len(t) - 1) /\ SubSeq(text, a, a + Len(t) - 1) = t

HasTag(r, tag) == \E k \in DOMAIN r.Tags : r.Tags[k] = tag

\* what gives the tag besides its whole-word tokens
HasKeyword(text, keywords) == \E kw \in keywords : Contains(Lower(text), kw)

\* the tag is there when a token is a word of the text, and, when nothing
\* else gives the tag, only then
WholeWordRule(r, tag, text, tokens, otherwise) ==
    /\ HasWord(text, tokens) => HasTag(r, tag)
    /\ (HasTag(r, tag) /\ ~otherwise) => HasWord(text, tokens)

\* C10: the tags of the short tokens follow whole words: "ai" is added when
\* AI is a word of the text and not when the letters are inside a longer
\* word; likewise VR, AR, XR (xr), UE4, UE5 (unreal engine), Maya (maya),
\* Switch (nintendo) and free in any case (free).
C10_WholeWordTokens ==
    pc = "classified" =>
        /\ WholeWordRule(rec, "ai", TextOf(rec), {<<"A", "I">>},
               HasKeyword(TextOf(rec), {<<"m", "a", "c", "h", "i", "n", "e", " ", "l", "e", "a", "r", "n", "i", "n", "g">>,
                                        <<"U+043D", "U+0435", "U+0439", "U+0440", "U+043E", "U+0441", "U+0435", "U+0442">>,
                                        <<"U+0438", "U+0441", "U+043A", "U+0443", "U+0441", "U+0441", "U+0442", "U+0432", "U+0435", "U+043D", "U+043D">>}))
        /\ WholeWordRule(rec, "xr", TextOf(rec), {<<"V", "R">>, <<"A", "R">>, <<"X", "R">>},
               HasKeyword(TextOf(rec), {<<"v", "i", "r", "t", "u", "a", "l", " ", "r", "e", "a", "l", "i", "t", "y">>,
                                        <<"U+0432", "U+0438", "U+0440", "U+0442", "U+0443", "U+0430", "U+043B", "U+044C", "U+043D">>}))
        /\ WholeWordRule(rec, "unreal engine", TextOf(rec), {<<"U", "E", "4">>, <<"U", "E", "5">>},
               \/ HasKeyword(TextOf(rec), {<<"u", "n", "r", "e", "a", "l">>})
               \/ EndsWith(get_domain(rec.Link), <<"u", "n", "r", "e", "a", "l", "e", "n", "g", "i", "n", "e", ".", "c", "o", "m">>))
        /\ WholeWordRule(rec, "maya", TextOf(rec), {<<"M", "a", "y", "a">>}, FALSE)
        /\ WholeWordRule(rec, "nintendo", TextOf(rec), {<<"S", "w", "i", "t", "c", "h">>},
               HasKeyword(TextOf(rec), {<<"n", "i", "n", "t", "e", "n", "d", "o">>}))
        /\ WholeWordRule(rec, "free", Lower(TextOf(rec)), {<<"f", "r", "e", "e">>},
               \/ HasKeyword(TextOf(rec), {<<"U+0431", "U+0435", "U+0441", "U+043F", "U+043B", "U+0430", "U+0442", "U+043D">>})
               \/ EndsWith(get_domain(rec.Link), <<"i", "t", "c", "h", ".", "i", "o">>))

C10_Witness ==
    /\ pc = "classified"
    /\ rec.Title = <<"p", "a", "i", "n", "t", "i", "n", "g", " ", "t", "e", "x", "t", "u", "r", "e", "s">>
    /\ rec.Description = <<>>
    /\ ~HasTag(rec, "ai")

---------------------------------------------------------------------------
(* Claims about extract_image_map and the image pass.                      *)

\* the images the entries of the image map give
MappedImages(map) == {map[k].value : k \in DOMAIN map}

\* no link is the key of two entries and no image the value of two
IsInjective(map) ==
    \A j, k \in DOMAIN map :
        (map[j].key = map[k].key \/ map[j].value = map[k].value) => j = k

\* C1: the image map is injective on image references throughout the pass
\* of extract_image_map and afterwards: an image is selected only if it is
\* not in the claim set, every mapped image is in the claim set, and the
\* claim set only grows while the loop over the headings runs.
C1_ImageMapInjective ==
    /\ [](IsInjective(image_map) /\ MappedImages(image_map) \subseteq claimed_images)
    /\ [][pc = "h3_loop" =>
            /\ claimed_images \subseteq claimed_images'
            /\ (claimed_images' \ claimed_images) \cap MappedImages(image_map) = {}]_vars

\* both headings have Img1 first in their after-zone; the second takes Img2
C1_Witness ==
    /\ pc = "h3_loop"
    /\ h3_index = 2
    /\ PickImageIgnoringClaims(AfterZone(digest_html, 1), {}) = Img1
    /\ PickImageIgnoringClaims(AfterZone(digest_html, 2), {}) = Img1
    /\ image_map = <<[key |-> LinkA, value |-> Img1], [key |-> LinkB, value |-> Img2]>>
    /\ claimed_images = {Img1, Img2}

\* C2: after the image pass no two records of the same digest carry the
\* same non-empty Image.
C2_NoImageOnTwoRecords ==
    pc = "done" =>
        \A j, k \in DOMAIN data :
            (/\ j # k
             /\ data[j].DigestNumber = data[k].DigestNumber
             /\ data[j].Image # <<>>)
                => data[j].Image # data[k].Image

\* two headings with the same link: both records get the image of the link
C2_Witness ==
    /\ pc = "done"
    /\ Len(data) = 2
    /\ data[1].Link = LinkA
    /\ data[2].Link = LinkA
    /\ data[1].Image # <<>>
    /\ data[1].Image = data[2].Image

---------------------------------------------------------------------------
(* Claims about extract_resources_from_digest.                             *)

\* the link goes to the host of the digests
IsOwnHost(link) ==
    \/ StartsWith(link, <<"http", "s", "://", "suvitruf.ru">>)
    \/ StartsWith(link, <<"http", "://", "suvitruf.ru">>)

\* the title of a heading
HeadingTitle(sec) == Unescape(H3Title(sec.h3, ClosedAnchors(sec.h3)))

\* the link of a heading: the one of its anchor, or else the first
\* resource link of its block; None if there is neither
HeadingLink(sec) ==
    IF Truthy(H3Link(sec.h3, ClosedAnchors(sec.h3)))
    THEN H3Link(sec.h3, ClosedAnchors(sec.h3))
    ELSE BlockLink(sec.block)

\* links and titles of the headings with a non-empty title and a link
\* that does not go to the digest's own host, in document order
RECURSIVE HeadingsToKeep(_)
HeadingsToKeep(sections) ==
    IF sections = <<>> THEN <<>>
    ELSE (IF /\ HeadingTitle(Head(sections)) # <<>>
             /\ Truthy(HeadingLink(Head(sections)))
             /\ ~IsOwnHost(HeadingLink(Head(sections)))
          THEN <<[Link |-> HeadingLink(Head(sections)),
                  Title |-> HeadingTitle(Head(sections))]>>
          ELSE <<>>)
         \o HeadingsToKeep(Tail(sections))

LinksAndTitles(candidates) ==
    [k \in DOMAIN candidates |->
        [Link |-> candidates[k].Link, Title |-> candidates[k].Title]]

\* C3: the candidates are exactly the headings of the article that have a
\* non-empty title and a resolvable link that is not a link to the
\* digest's own host, one candidate each, in document order; a page
\* without an article gives no candidate.
C3_OneCandidatePerHeading ==
    pc = "parsed" =>
        LinksAndTitles(resources) =
            IF digest_html.article THEN HeadingsToKeep(digest_html.sections) ELSE <<>>

\* a heading whose link goes to another host and names suvitruf.ru in its
\* query gives no candidate
C3_Witness ==
    /\ pc = "parsed"
    /\ digest_html.article
    /\ Len(digest_html.sections) = 1
    /\ HeadingLink(digest_html.sections[1]) = LinkMention
    /\ HeadingTitle(digest_html.sections[1]) = <<"Mention">>
    /\ resources = <<>>

IsAbsolute(link) ==
    \/ StartsWith(link, <<"http", "://">>)
    \/ StartsWith(link, <<"http", "s", "://">>)

\* C4: the Link of every candidate is an absolute http or https url.
C4_LinksAbsolute ==
    pc = "parsed" => \A k \in DOMAIN resources : IsAbsolute(resources[k].Link)

\* the href of an anchor inside the heading is taken as it is
C4_Witness ==
    /\ pc = "parsed"
    /\ Len(resources) = 1
    /\ resources[1].Link = LinkRelative
    /\ resources[1].Title = <<"About">>

\* C5: no two candidates of one page have the same Link.
C5_LinkUnique ==
    pc = "parsed" =>
        \A j, k \in DOMAIN resources : resources[j].Link = resources[k].Link => j = k

C5_Witness ==
    /\ pc = "parsed"
    /\ Len(resources) = 2
    /\ resources[1].Link = LinkA
    /\ resources[2].Link = LinkA
    /\ resources[1].Title # resources[2].Title

---------------------------------------------------------------------------
(* Claims about extract_date_from_html.                                    *)

\* the date each raw value of the model stands for, or None
DateOfRaw(r) ==
    IF r = RawOg THEN <<"1", "1", ".", "0", "1", ".", "2", "0", "2", "1">>
    ELSE IF r = RawMeta THEN <<"1", "2", ".", "0", "2", ".", "2", "0", "2", "2">>
    ELSE IF r = RawLd THEN <<"1", "3", ".", "0", "3", ".", "2", "0", "2", "3">>
    ELSE IF r = RawTime THEN <<"1", "4", ".", "0", "4", ".", "2", "0", "2", "4">>
    ELSE IF r = RawPub THEN <<"1", "5", ".", "0", "5", ".", "2", "0", "2", "5">>
    ELSE IF r = RawPublished THEN <<"1", "6", ".", "0", "6", ".", "2", "0", "2", "6">>
    ELSE IF r = RawLdLater THEN <<"1", "7", ".", "0", "7", ".", "2", "0", "2", "7">>
    ELSE None

\* the first date among the raw values of one stage, or None
RECURSIVE FirstDate(_)
FirstDate(raws) ==
    IF raws = <<>> THEN None
    ELSE IF DateOfRaw(Head(raws)) # None THEN DateOfRaw(Head(raws))
    ELSE FirstDate(Tail(raws))

\* what each of the five stages yields, in the order of the waterfall
StageResults(html, url) ==
    <<DateOfRaw(html.og),
      FirstDate(<<html.meta["date"], html.meta["pubdate"], html.meta["DC.date.issued"],
                  html.meta["publish_date"], html.meta["article:published"]>>),
      FirstDate(html.ld),
      FirstDate(html.time),
      ExpectedUrlDate(url)>>

EarliestStage(stages) ==
    IF \A k \in DOMAIN stages : stages[k] = None THEN None
    ELSE stages[Least({k \in DOMAIN stages : stages[k] # None})]

\* C16: extract_date_from_html returns the date of the earliest stage that
\* yields one, in the order published_time meta, the meta names in their
\* order, JSON-LD blocks, time elements, url pattern; a value that is not a
\* date does not stop the waterfall, and None comes only when all fail.
C16_EarliestStageWins ==
    pc = "extracted" =>
        parsed = EarliestStage(StageResults(last_fetch.html, last_fetch.url))

\* the first two stages have values that are no dates, the third meta name
\* wins over JSON-LD, time and the url
C16_Witness ==
    /\ pc = "extracted"
    /\ last_fetch.url = UrlSlashed
    /\ last_fetch.html.og = RawBad
    /\ last_fetch.html.meta["date"] = RawBad
    /\ last_fetch.html.meta["pubdate"] = None
    /\ last_fetch.html.meta["article:published"] = RawPublished
    /\ last_fetch.html.ld = <<RawBad, RawLd>>
    /\ last_fetch.html.time = <<RawTime>>
    /\ parsed = <<"1", "6", ".", "0", "6", ".", "2", "0", "2", "6">>

\* C19: parse_date_string, extract_date_from_url and extract_date_from_html
\* never return the sentinel 01.01.1970, so process_single_url returns it
\* exactly when the document stages and the url pattern all fail.
C19_SentinelOnlyWhenAllFail ==
    /\ \A k \in DOMAIN DocumentRaws(last_fetch.html) :
           parse_date_string(DocumentRaws(last_fetch.html)[k]) # DEFAULT_DATE
    /\ extract_date_from_url(last_fetch.url) # DEFAULT_DATE
    /\ pc = "extracted" => parsed # DEFAULT_DATE
    /\ pc = "processed" =>
           (parsed = DEFAULT_DATE <=>
               /\ HtmlTruthy(last_fetch.html) =>
                      \A k \in 1..4 :
                          StageResults(last_fetch.html, last_fetch.url)[k] = None
               /\ ExpectedUrlDate(last_fetch.url) = None)

\* a page and a url that both spell the first day of 1970
C19_Witness ==
    /\ pc = "processed"
    /\ last_fetch.url = UrlEpoch
    /\ HtmlTruthy(last_fetch.html)
    /\ last_fetch.html.time = <<DEFAULT_DATE, RawEpoch>>
    /\ last_fetch.html.og = RawBad
    /\ parsed = DEFAULT_DATE

---------------------------------------------------------------------------
(* Claims about the domain rules of classify_tags.                         *)

\* the domain is the known domain or a subdomain of it
IsDomainOrSubdomain(domain, known) ==
    \E d \in known : domain = d \/ EndsWith(domain, <<".">> \o d)

NoTagTwice(r) ==
    \A j, k \in DOMAIN r.Tags : r.Tags[j] = r.Tags[k] => j = k

\* the tag is in the result exactly when the domain rule or the keyword
\* check holds
DomainRule(r, tag, known, keyword) ==
    HasTag(r, tag) <=> (IsDomainOrSubdomain(get_domain(r.Link), known) \/ keyword)

\* C17: a tag with a domain rule (unreal engine, unity, godot, opensource,
\* steam, free) is in the result of classify_tags exactly when the domain is
\* the rule's known domain or a subdomain of it, or the tag's keyword check
\* matches the text; and no tag is in the result twice.
C17_DomainRuleOrKeyword ==
    pc = "classified" =>
        /\ NoTagTwice(rec)
        /\ DomainRule(rec, "unreal engine",
               {<<"u", "n", "r", "e", "a", "l", "e", "n", "g", "i", "n", "e", ".", "c", "o", "m">>},
               \/ HasKeyword(TextOf(rec), {<<"u", "n", "r", "e", "a", "l">>})
               \/ HasWord(TextOf(rec), {<<"U", "E", "4">>, <<"U", "E", "5">>}))
        /\ DomainRule(rec, "unity", {<<"u", "n", "i", "t", "y", ".", "c", "o", "m">>},
               HasKeyword(TextOf(rec), {<<"u", "n", "i", "t", "y">>}))
        /\ DomainRule(rec, "godot",
               {<<"g", "o", "d", "o", "t", "e", "n", "g", "i", "n", "e", ".", "o", "r", "g">>},
               HasKeyword(TextOf(rec), {<<"g", "o", "d", "o", "t">>}))
        /\ DomainRule(rec, "opensource",
               {<<"g", "i", "t", "h", "u", "b", ".", "c", "o", "m">>,
                <<"g", "i", "t", "l", "a", "b", ".", "c", "o", "m">>},
               HasKeyword(TextOf(rec),
                   {<<"o", "p", "e", "n", " ", "s", "o", "u", "r", "c", "e">>,
                    <<"o", "p", "e", "n", "s", "o", "u", "r", "c", "e">>,
                    <<"o", "p", "e", "n", "-", "s", "o", "u", "r", "c", "e">>,
                    <<"U+043E", "U+0442", "U+043A", "U+0440", "U+044B", "U+0442", "U+044B", "U+0439", " ", "U+043A", "U+043E", "U+0434">>}))
        /\ DomainRule(rec, "steam",
               {<<"s", "t", "e", "a", "m", "p", "o", "w", "e", "r", "e", "d", ".", "c", "o", "m">>},
               HasKeyword(TextOf(rec), {<<"s", "t", "e", "a", "m">>}))
        /\ DomainRule(rec, "free", {<<"i", "t", "c", "h", ".", "i", "o">>},
               \/ HasKeyword(TextOf(rec), {<<"U+0431", "U+0435", "U+0441", "U+043F", "U+043B", "U+0430", "U+0442", "U+043D">>})
               \/ HasWord(Lower(TextOf(rec)), {<<"f", "r", "e", "e">>}))

\* a host that only ends in the letters of unrealengine.com, a text without
\* any keyword, and the tag
C17_Witness ==
    /\ pc = "classified"
    /\ get_domain(rec.Link) = <<"m", "y", "u", "n", "r", "e", "a", "l", "e", "n", "g", "i", "n", "e", ".", "c", "o", "m">>
    /\ ~HasKeyword(TextOf(rec), {<<"u", "n", "r", "e", "a", "l">>})
    /\ ~HasWord(TextOf(rec), {<<"U", "E", "4">>, <<"U", "E", "5">>})
    /\ HasTag(rec, "unreal engine")

---------------------------------------------------------------------------
(* Claims that compare extract_image_map with the parser.                  *)

\* the candidates (none or one) the parser creates from one heading
CandidatesOfHeading(sec) ==
    Resource(Unescape(H3Title(sec.h3, ClosedAnchors(sec.h3))),
             H3Link(sec.h3, ClosedAnchors(sec.h3)), sec.block)

CandidateLinks(doc) ==
    {extract_resources_from_digest(doc)[k].Link :
        k \in DOMAIN extract_resources_from_digest(doc)}

\* the turn of the loop for heading i, with these images claimed, claims one
WouldClaim(doc, i, claimed) ==
    Claims(ImageLink(doc.sections[i]), FoundImage(doc, i, claimed))

\* C14: the headings on whose behalf extract_image_map claims an image are
\* headings from which the parser creates a candidate, and every key of the
\* image map is the Link of a parsed candidate.
C14_ImageMapOnCandidates ==
    /\ \A k \in DOMAIN image_map : image_map[k].key \in CandidateLinks(digest_html)
    /\ (pc = "h3_loop" /\ h3_index < Len(digest_html.sections)
            /\ WouldClaim(digest_html, h3_index + 1, claimed_images))
        => CandidatesOfHeading(digest_html.sections[h3_index + 1]) # <<>>

\* a heading that is an anchor around nothing but an image: no candidate,
\* and yet the only image of the page is claimed for its link
C14_Witness ==
    /\ pc = "h3_loop"
    /\ h3_index = 2
    /\ digest_html.sections[1].h3 = <<Anchor(LinkC, <<>>, TRUE)>>
    /\ digest_html.sections[1].block = <<Para(<<"desc">>), Img(ImgExternal), Img(Img1)>>
    /\ digest_html.sections[2].h3 = <<Anchor(LinkA, <<"Title", " ", "A">>, TRUE)>>
    /\ digest_html.sections[2].block = <<>>
    /\ CandidateLinks(digest_html) = {LinkA}
    /\ image_map = <<[key |-> LinkC, value |-> Img1]>>

\* the first upload image of the nodes, in their order, that is not claimed
RECURSIVE FirstUnclaimed(_, _)
FirstUnclaimed(nodes, claimed) ==
    IF nodes = <<>> THEN None
    ELSE IF Head(nodes).tag = "img" /\ Contains(Head(nodes).href, UPLOADS)
            /\ Head(nodes).href \notin claimed
         THEN Head(nodes).href
    ELSE FirstUnclaimed(Tail(nodes), claimed)

\* the nodes between heading i and the next heading, and those between the
\* heading before it (or the start of the article) and heading i
NodesAfter(doc, i) == doc.sections[i].block

NodesBefore(doc, i) == IF i = 1 THEN doc.lead ELSE doc.sections[i - 1].block

\* what the turn of heading i has to select
ZoneChoice(doc, i, claimed) ==
    IF FirstUnclaimed(NodesAfter(doc, i), claimed) # None
    THEN FirstUnclaimed(NodesAfter(doc, i), claimed)
    ELSE FirstUnclaimed(NodesBefore(doc, i), claimed)

\* the turn of the loop reaches the search of the zones
ReachesZones(sec) == Truthy(ImageLink(sec)) /\ ~IsSelfLink(ImageLink(sec))

\* the turn for heading i maps its link to the choice and claims it, or,
\* without a choice, changes nothing
TurnFollowsZones(doc, i, link) ==
    IF ReachesZones(doc.sections[i]) /\ ZoneChoice(doc, i, claimed_images) # None
    THEN /\ ZoneChoice(doc, i, claimed_images) \notin claimed_images
         /\ claimed_images' = claimed_images \cup {ZoneChoice(doc, i, claimed_images)}
         /\ DictHas(image_map', link)
         /\ DictGet(image_map', link) = ZoneChoice(doc, i, claimed_images)
         /\ \A k \in DOMAIN image_map :
                image_map[k].key # link =>
                    /\ DictHas(image_map', image_map[k].key)
                    /\ DictGet(image_map', image_map[k].key) = image_map[k].value
    ELSE image_map' = image_map /\ claimed_images' = claimed_images

\* C15: in the pass of extract_image_map the image mapped for a heading is
\* the first unclaimed upload image of its after-zone, in document order;
\* only if there is none, the first unclaimed one of its before-zone;
\* otherwise nothing is mapped.  A claimed image is never released or
\* given to another link.
C15_AfterZoneThenBeforeZone ==
    [][/\ claimed_images \subseteq claimed_images' \/ pc = "start"
       /\ (pc = "h3_loop" /\ h3_index' = h3_index + 1) =>
             TurnFollowsZones(digest_html, h3_index + 1,
                              ImageLink(digest_html.sections[h3_index + 1]))]_vars

\* the first heading takes the first image of its block; the second has
\* none after it and takes the next unclaimed one of the block before it
C15_Witness ==
    /\ pc = "h3_loop"
    /\ h3_index = 2
    /\ FirstUnclaimed(NodesAfter(digest_html, 1), {}) = Img1
    /\ FirstUnclaimed(NodesAfter(digest_html, 2), {}) = None
    /\ FirstUnclaimed(NodesBefore(digest_html, 2), {Img1}) = Img2
    /\ image_map = <<[key |-> LinkA, value |-> Img1], [key |-> LinkB, value |-> Img2]>>
    /\ claimed_images = {Img1, Img2}

---------------------------------------------------------------------------
(* Claims about process_digest and the runs of parse_digests.main.         *)

\* the Links of the records of digest n, in the order of the catalog
RECURSIVE LinksOfDigest(_, _)
LinksOfDigest(catalog, n) ==
    IF catalog = <<>> THEN <<>>
    ELSE IF Head(catalog).DigestNumber = n
         THEN <<Head(catalog).Link>> \o LinksOfDigest(Tail(catalog), n)
    ELSE LinksOfDigest(Tail(catalog), n)

\* the numbers of the digest pages and the links of their resources
DigestNumbers == {1, 3, 12}

LinksOnPage(n) ==
    IF n = 1 THEN <<LinkA, LinkRu>> ELSE IF n = 12 THEN <<LinkA>> ELSE <<>>

\* the catalog holds the records of every digest not at all or once
EachDigestAtMostOnce(catalog) ==
    \A n \in DigestNumbers : LinksOfDigest(catalog, n) \in {<<>>, LinksOnPage(n)}

IsPrefix(s, t) == Len(s) <= Len(t) /\ SubSeq(t, 1, Len(s)) = s

\* C12: after any sequence of completed process_digest calls, repeated
\* calls and re-runs included, the catalog holds the records of each
\* digest number at most once; records are appended only for a digest that
\* is not in the processed map; and the catalog only grows by appending.
C12_DigestIdempotence ==
    /\ [](EachDigestAtMostOnce(data) /\ EachDigestAtMostOnce(data_file))
    /\ [][/\ IsPrefix(data_file, data_file')
          /\ pc = "main" => data' = data
          /\ pc \in {"visit", "records", "mark"} => IsPrefix(data, data')
          /\ data_file' # data_file =>
                /\ IntToStr(digest_call.number) \notin DOMAIN digest_progress
                /\ IntToStr(digest_call.number) \notin DOMAIN digest_progress_file]_vars

\* the second run has called process_digest for digest 1 again, twice
\* counting the call for another page, and the catalog has it once
C12_Witness ==
    /\ runs = 2
    /\ calls = 3
    /\ pc = "main"
    /\ <<"1">> \in DOMAIN progress_at_start
    /\ DigestUrl1 \in fetched_urls
    /\ LinksOfDigest(data_file, 1) = <<LinkA, LinkRu>>
    /\ LinksOfDigest(data_file, 12) = <<LinkA>>
    /\ Len(data_file) = 3

\* C20: a run of parse_digests stopped at any point of process_digest, and
\* restarted from the files, leaves the records of each digest at most
\* once in data.json.
C20_InterruptedRunsKeepDigestsOnce == EachDigestAtMostOnce(data_file)

\* the first run was stopped between the two saves of digest 1; the second
\* run has appended the records of digest 1 once more
C20_Witness ==
    /\ runs = 2
    /\ pc = "mark"
    /\ digest_call.number = 1
    /\ progress_at_start = EmptyMap
    /\ LinksOfDigest(data_file, 1) = <<LinkA, LinkRu, LinkA, LinkRu>>

\* C18: a key that is in the progress map when the run starts causes no
\* fetch during the run and keeps its stored value: parse_digests fetches
\* nothing for a digest that is in the processed map.
C18_NoFetchForProcessedDigest ==
    \A k \in DOMAIN progress_at_start :
        /\ progress_at_start[k] \notin fetched_urls
        /\ k \in DOMAIN digest_progress_file
        /\ digest_progress_file[k] = progress_at_start[k]

\* the second run found digest 1 in the processed map and has fetched its
\* page all the same, to read the number in its header
C18_Witness ==
    /\ runs = 2
    /\ pc = "main"
    /\ calls = 1
    /\ progress_at_start = Put(EmptyMap, <<"1">>, DigestUrl1)
    /\ fetched_urls = {DigestUrl1}
    /\ digest_progress_file = progress_at_start

---------------------------------------------------------------------------
(* Claims about re-runs of the date pass.                                  *)

\* every record of the catalog that has a Date other than the sentinel has
\* the same Date in the catalog after the step
KeepsDates(before, after) ==
    \A k \in DOMAIN before :
        ("Date" \in DOMAIN before[k] /\ before[k].Date # DEFAULT_DATE) =>
            /\ k \in DOMAIN after
            /\ "Date" \in DOMAIN after[k]
            /\ after[k].Date = before[k].Date

\* C13: a re-run of the date pass never replaces a Date that is not the
\* sentinel, whatever date_progress.json holds when the re-run starts (a
\* missing file is read as empty) and whichever fetches fail.
C13_RerunKeepsEnrichedFields == [][KeepsDates(data_file, data_file')]_vars

\* the earlier run dated the record from its page; the progress file was
\* lost, the fetch of the re-run gave nothing, and the record has the
\* sentinel
C13_Witness ==
    /\ pc = "done"
    /\ Len(data_file) = 1
    /\ data_file[1].Link = UrlPlain
    /\ data_file[1].Date = DEFAULT_DATE
    /\ last_fetch = [url |-> UrlPlain, html |-> NoHtml]
    /\ date_progress_file = [u \in {UrlPlain} |-> DEFAULT_DATE]

---------------------------------------------------------------------------
(* Claims about the order of the enrichment passes.                        *)

\* the fields each pass writes
FieldsOf(pass) ==
    IF pass = "dates" THEN {"Date"}
    ELSE IF pass = "images" THEN {"Image"}
    ELSE {"Type", "Tags"}

\* the step of the pass writes its own fields in every record and leaves the
\* other fields, and the number and order of the records, as they were
WritesOnlyOwnFields(pass, before, after) ==
    /\ Len(after) = Len(before)
    /\ \A k \in DOMAIN before :
           /\ DOMAIN after[k] = DOMAIN before[k] \cup FieldsOf(pass)
           /\ \A f \in DOMAIN before[k] \ FieldsOf(pass) : after[k][f] = before[k][f]

\* the fields of a record that no pass writes
BaseRecord(r) ==
    [Link |-> r.Link, Title |-> r.Title, Description |-> r.Description,
     DigestNumber |-> r.DigestNumber]

\* dates, then images, then classification
InFixedOrder(recs, dates, images) ==
    ClassifyAll(ApplyImages(apply_dates(recs, dates), images))

\* C11: the date pass, the image pass and the classification commute: each
\* writes only its own fields (Date; Image; Type and Tags) and leaves the
\* other fields and the number and order of the records unchanged, so the
\* three passes run in any order over the same catalog and the same
\* progress stores give the same final catalog.
C11_PassesCommute ==
    /\ []({passes[k] : k \in DOMAIN passes} = {"dates", "images", "classify"} =>
            data_file = InFixedOrder([k \in DOMAIN data_file |-> BaseRecord(data_file[k])],
                                     date_progress_file, image_progress))
    /\ [][passes' # passes =>
            WritesOnlyOwnFields(passes'[Len(passes')], data_file, data_file')]_vars

\* classification first, dates last: the record has all four fields
C11_Witness ==
    /\ passes = <<"classify", "images", "dates">>
    /\ Len(data_file) = 2
    /\ data_file[1].Link = PassLinkRepo
    /\ data_file[1].Type = "repository"
    /\ data_file[1].Tags # <<>>
    /\ data_file[1].Image = PassImage
    /\ data_file[1].Date = PassDate
    /\ data_file[2].Link = PassLinkPlain
    /\ data_file[2].Image = <<>>
    /\ data_file[2].Date = DEFAULT_DATE

---------------------------------------------------------------------------
(* Claims about the thread pool of process_digest.                         *)

\* the finished worker of resource k
FutureOf(k) == futures[CHOOSE j \in DOMAIN futures : futures[j].index = k]

\* Language and Author of a record, by what its own worker did: the
\* defaults if it raised; from a page with lang="DE" and a JSON-LD author
\* " Ann &amp; Co"; with no page, from the url
LanguageFor(link, future) ==
    IF future.raised THEN <<"en">>
    ELSE IF future.page.got = "text" THEN <<"d", "e">>
    ELSE IF link = LinkRu THEN <<"ru">>
    ELSE <<"en">>

AuthorFor(future) ==
    IF ~future.raised /\ future.page.got = "text" THEN <<"Ann", " ", "&", " ", "Co">> ELSE <<>>

\* the links of the parser's candidates for the headings SectionA .. in
\* document order
LinksInDocumentOrder(res) == [k \in DOMAIN res |-> res[k].Link]

\* C21: whatever order the workers of the pool complete in and whichever
\* raise, each resource is finished by exactly one worker, every record
\* appended has Language and Author, set by its own worker alone (the
\* defaults 'en' and '' if that worker raised), and the records are
\* appended in the parser's document order.
C21_PoolOrderAndFailures ==
    /\ \A i, j \in DOMAIN futures : futures[i].index = futures[j].index => i = j
    /\ pc \in {"records", "mark", "main"} => Finished = DOMAIN resources \/ resources = <<>>
    /\ pc = "mark" =>
          /\ Len(data) = Len(resources)
          /\ data_file = data
          /\ \A k \in DOMAIN data :
                /\ data[k].Link = LinksInDocumentOrder(resources)[k]
                /\ data[k].Title = resources[k].Title
                /\ data[k].Link \in {LinkA, LinkRu}
                /\ DOMAIN data[k] = {"Link", "Title", "Author", "Language", "Description",
                                     "DigestNumber", "DigestDate"}
                /\ data[k].Language = LanguageFor(data[k].Link, FutureOf(k))
                /\ data[k].Author = AuthorFor(FutureOf(k))

\* three resources finished in the order 3, 1, 2; the worker of the first
\* raised; the records are in document order, each with its own values
C21_Witness ==
    /\ pc = "mark"
    /\ Len(futures) = 3
    /\ futures[1].index = 3
    /\ futures[2].index = 1
    /\ futures[2].raised
    /\ futures[3].index = 2
    /\ futures[3].page.got = "text"
    /\ ~futures[1].raised
    /\ futures[1].page.got = "none"
    /\ data[1].Link = LinkRu
    /\ data[1].Language = <<"en">>
    /\ data[1].Author = <<>>
    /\ data[2].Link = LinkA
    /\ data[2].Language = <<"d", "e">>
    /\ data[2].Author = <<"Ann", " ", "&", " ", "Co">>
    /\ data[3].Link = LinkRu
    /\ data[3].Language = <<"ru">>

=============================================================================
